---- MODULE Spec2Model ----
(***************************************************************************)
(* A model of the Hefty claim-check wrappers of jo-parker/sqs-hefty:       *)
(* SqsClientWrapper (SendHeftyMessage, SendHeftyMessageBatch,              *)
(* ReceiveHeftyMessage, DeleteHeftyMessage) and SnsClientWrapper           *)
(* (PublishHeftyMessage), with                                             *)
(* the SQS queue, the SNS topic and the S3 bucket as collaborators whose   *)
(* calls succeed or fail nondeterministically.                             *)
(*                                                                         *)
(* Go strings are modelled as sequences of byte values (0..255); B("...")  *)
(* turns a literal of printable ASCII into such a sequence.                *)
(***************************************************************************)
EXTENDS Integers, Sequences, FiniteSets, TLC

----------------------------------------------------------------------------
(* Byte strings *)

\* the bytes of a literal of printable ASCII, 32..95 and 97..126 (the lexer
\* has no literal for byte 96)
B(s) ==
    LET AsciiLo == " !\"#$%&'()*+,-./0123456789:;<=>?@ABCDEFGHIJKLMNOPQRSTUVWXYZ[\\]^_"
        AsciiHi == "abcdefghijklmnopqrstuvwxyz{|}~"
        Ord(c) ==
            IF \E i \in 1..Len(AsciiLo) : SubSeq(AsciiLo, i, i) = c
            THEN 31 + (CHOOSE i \in 1..Len(AsciiLo) : SubSeq(AsciiLo, i, i) = c)
            ELSE 96 + (CHOOSE i \in 1..Len(AsciiHi) : SubSeq(AsciiHi, i, i) = c)
    IN  [i \in 1..Len(s) |-> Ord(SubSeq(s, i, i))]

\* strings.HasPrefix
HasPrefix(s, p) == Len(s) >= Len(p) /\ SubSeq(s, 1, Len(p)) = p

\* strings.Split(s, sep) for a one-byte separator: always at least one token
RECURSIVE Split(_, _)
Split(s, sep) ==
    IF \E i \in 1..Len(s) : s[i] = sep
    THEN LET i == CHOOSE j \in 1..Len(s) :
                      s[j] = sep /\ \A m \in 1..(j - 1) : s[m] # sep
         IN  <<SubSeq(s, 1, i - 1)>> \o Split(SubSeq(s, i + 1, Len(s)), sep)
    ELSE <<s>>

----------------------------------------------------------------------------
(* encoding/base64, StdEncoding: alphabet A-Z a-z 0-9 + /, '=' padding *)

B64Char(n) ==
    IF n < 26 THEN 65 + n
    ELSE IF n < 52 THEN 71 + n
    ELSE IF n < 62 THEN n - 4
    ELSE IF n = 62 THEN 43 ELSE 47

B64Index(b) ==
    IF b >= 65 /\ b <= 90 THEN b - 65
    ELSE IF b >= 97 /\ b <= 122 THEN b - 71
    ELSE IF b >= 48 /\ b <= 57 THEN b + 4
    ELSE IF b = 43 THEN 62
    ELSE IF b = 47 THEN 63
    ELSE -1

\* base64.StdEncoding.EncodeToString
RECURSIVE EncodeToString(_)
EncodeToString(s) ==
    IF Len(s) = 0 THEN <<>>
    ELSE IF Len(s) = 1 THEN
        <<B64Char(s[1] \div 4), B64Char((s[1] % 4) * 16), 61, 61>>
    ELSE IF Len(s) = 2 THEN
        <<B64Char(s[1] \div 4),
          B64Char((s[1] % 4) * 16 + s[2] \div 16),
          B64Char((s[2] % 16) * 4), 61>>
    ELSE
        <<B64Char(s[1] \div 4),
          B64Char((s[1] % 4) * 16 + s[2] \div 16),
          B64Char((s[2] % 16) * 4 + s[3] \div 64),
          B64Char(s[3] % 64)>> \o EncodeToString(SubSeq(s, 4, Len(s)))

RECURSIVE DecodeQuanta(_)
DecodeQuanta(s) ==
    IF Len(s) = 0 THEN [err |-> FALSE, bytes |-> <<>>]
    ELSE IF Len(s) < 4 THEN [err |-> TRUE, bytes |-> <<>>]
    ELSE LET q == SubSeq(s, 1, 4)
             ok(i) == B64Index(q[i]) >= 0
             \* one full quantum of four alphabet characters -> three bytes
             Quantum3 ==
                 <<B64Index(q[1]) * 4 + B64Index(q[2]) \div 16,
                   (B64Index(q[2]) % 16) * 16 + B64Index(q[3]) \div 4,
                   (B64Index(q[3]) % 4) * 64 + B64Index(q[4])>>
         IN  IF Len(s) = 4 /\ q[3] = 61 /\ q[4] = 61 THEN
                 IF ok(1) /\ ok(2)
                 THEN [err |-> FALSE,
                       bytes |-> <<B64Index(q[1]) * 4 + B64Index(q[2]) \div 16>>]
                 ELSE [err |-> TRUE, bytes |-> <<>>]
             ELSE IF Len(s) = 4 /\ q[4] = 61 THEN
                 IF ok(1) /\ ok(2) /\ ok(3)
                 THEN [err |-> FALSE,
                       bytes |-> <<B64Index(q[1]) * 4 + B64Index(q[2]) \div 16,
                                   (B64Index(q[2]) % 16) * 16 + B64Index(q[3]) \div 4>>]
                 ELSE [err |-> TRUE, bytes |-> <<>>]
             ELSE IF ok(1) /\ ok(2) /\ ok(3) /\ ok(4) THEN
                 LET rest == DecodeQuanta(SubSeq(s, 5, Len(s)))
                 IN  [err |-> rest.err, bytes |-> Quantum3 \o rest.bytes]
             ELSE [err |-> TRUE, bytes |-> <<>>]

\* base64.StdEncoding.DecodeString: CR and LF are skipped, padding is required
DecodeString(s) ==
    DecodeQuanta(SelectSeq(s, LAMBDA b : b # 10 /\ b # 13))

----------------------------------------------------------------------------
(* Constants of the wrappers *)

MaxSqsMessageLengthBytes == 262144

MaxHeftyMessageLengthBytes == 26214400

MaxAwsMessageLengthBytes == 262144

heftyClientVersionMessageKey == B("hefty-client-version")

receiptHandlePrefix == B("hefty-message")

expectedReceiptHandleTokenCount == 4

Pipe == B("|")

Slash == B("/")

Colon == B(":")

TypeString == B("String")

TypeNumber == B("Number")

TypeBinary == B("Binary")


UuidPrefix == B("u")

\* the value of the identifier field of a types.ReferenceMsg
referenceMsgIdentifierKey == B("d3131a62e0224688b77a506fd333dac4")

IdentifierKey == B("identifier")

\* JSON keys of a marshalled reference message, after the identifier
RefKeys ==
    <<B("s3_region"), B("s3_bucket"), B("s3_key"),
      B("md5_digest_msg_body"), B("md5_digest_msg_attr")>>

SqsEnvelope == B("{\"Message\":\"\"}")

SnsEnvelope == B("{\"default\":\"\"}")

----------------------------------------------------------------------------
(* Message bodies.  A body is one of                                       *)
(*   [kind |-> "rep", c, n]          the byte c repeated n times           *)
(*   [kind |-> "ref", indent, ref]   the JSON text of a reference message  *)
(*   [kind |-> "sqsmsg", Message]    json.Marshal(types.SQSMessage{..})    *)
(*   [kind |-> "snsmsg", Message]    json.Marshal(types.SNSMessage{..})    *)
(*                                   after the three ReplaceAll calls      *)

Rep(c, n) == [kind |-> "rep", c |-> c, n |-> n]

\* digests are the content they were computed over: no two contents collide
Md5Digest(bytes) == [md5 |-> bytes]

\* the empty string in a digest field: no digest was computed
EmptyDigest == [md5 |-> [kind |-> "none"]]

DigestLen(d) == IF d = EmptyDigest THEN 0 ELSE 32

\* utf8.DecodeRune on the first bytes of s: the number of bytes of the
\* encoding, 0 when they are not a valid one (too short, a wrong
\* continuation byte, an overlong form, a surrogate, above U+10FFFF)
Utf8Size(s) ==
    LET b == s[1]
        cont(i, lo, hi) == i <= Len(s) /\ s[i] >= lo /\ s[i] <= hi
    IN  IF b < 128 THEN 1
        ELSE IF b >= 194 /\ b <= 223
        THEN IF cont(2, 128, 191) THEN 2 ELSE 0
        ELSE IF b >= 224 /\ b <= 239
        THEN IF cont(2, IF b = 224 THEN 160 ELSE 128,
                        IF b = 237 THEN 159 ELSE 191)
                /\ cont(3, 128, 191)
             THEN 3 ELSE 0
        ELSE IF b >= 240 /\ b <= 244
        THEN IF cont(2, IF b = 240 THEN 144 ELSE 128,
                        IF b = 244 THEN 143 ELSE 191)
                /\ cont(3, 128, 191) /\ cont(4, 128, 191)
             THEN 4 ELSE 0
        ELSE 0

\* encoding/json's string escaping (escapeHTML on, as json.Marshal and
\* json.MarshalIndent set it) of the text between the quotes: the quote and
\* the backslash get a backslash; \b \f \n \r \t their two-byte forms; the
\* other control bytes and < > & the form \u00xx; a byte that is not the
\* start of a valid UTF-8 encoding becomes \ufffd; U+2028 and U+2029 become
\* \u2028 and \u2029; every other valid encoding is copied
RECURSIVE JsonEscape(_)
JsonEscape(s) ==
    IF Len(s) = 0 THEN <<>>
    ELSE LET b == s[1]
             hex(n) == IF n < 10 THEN 48 + n ELSE 87 + n
             size == Utf8Size(s)
         IN  IF b < 128 THEN
                 (IF b = 34 \/ b = 92 THEN <<92, b>>
                  ELSE IF b = 8 THEN <<92, 98>>
                  ELSE IF b = 12 THEN <<92, 102>>
                  ELSE IF b = 10 THEN <<92, 110>>
                  ELSE IF b = 13 THEN <<92, 114>>
                  ELSE IF b = 9 THEN <<92, 116>>
                  ELSE IF b < 32 \/ b = 38 \/ b = 60 \/ b = 62
                  THEN <<92, 117, 48, 48, hex(b \div 16), hex(b % 16)>>
                  ELSE <<b>>) \o JsonEscape(Tail(s))
             ELSE IF size = 0 THEN
                 <<92, 117, 102, 102, 102, 100>> \o JsonEscape(Tail(s))
             ELSE IF size = 3 /\ b = 226 /\ s[2] = 128 /\ (s[3] = 168 \/ s[3] = 169)
             THEN <<92, 117, 50, 48, 50, s[3] - 112>>
                      \o JsonEscape(SubSeq(s, 4, Len(s)))
             ELSE SubSeq(s, 1, size) \o JsonEscape(SubSeq(s, size + 1, Len(s)))

\* encoding/json's decoding of the text between the quotes of a JSON string
\* (the scanner's check, then unquote).  err: a raw quote or control byte, a
\* backslash followed by none of " \ / b f n r t u, a \u without four hex
\* digits.  Otherwise the bytes: an escape gives its byte, \uxxxx its code
\* point in UTF-8, a high surrogate followed by the \uxxxx of a low one the
\* code point of the pair, any other surrogate U+FFFD, and a raw byte that
\* is not the start of a valid UTF-8 encoding U+FFFD
RECURSIVE JsonUnescape(_)
JsonUnescape(t) ==
    LET fail == [err |-> TRUE, bytes |-> <<>>]
        \* the n bytes read gave `bytes`: the result with that of the rest,
        \* which is bound as a value so that it is evaluated once
        then(bytes, n) ==
            CHOOSE r \in {IF rest.err THEN fail
                          ELSE [err |-> FALSE, bytes |-> bytes \o rest.bytes] :
                          rest \in {JsonUnescape(SubSeq(t, n + 1, Len(t)))}} : TRUE
        isHex(b) == (b >= 48 /\ b <= 57) \/ (b >= 65 /\ b <= 70)
                      \/ (b >= 97 /\ b <= 102)
        digit(b) == IF b <= 57 THEN b - 48
                    ELSE IF b <= 70 THEN b - 55 ELSE b - 87
        \* getu4: the code unit of a \uxxxx at position i, -1 without one
        getu4(i) ==
            IF Len(t) >= i + 5 /\ t[i] = 92 /\ t[i + 1] = 117
                 /\ \A k \in 2..5 : isHex(t[i + k])
            THEN digit(t[i + 2]) * 4096 + digit(t[i + 3]) * 256
                   + digit(t[i + 4]) * 16 + digit(t[i + 5])
            ELSE -1
        \* utf8.EncodeRune
        encode(cp) ==
            IF cp < 128 THEN <<cp>>
            ELSE IF cp < 2048 THEN <<192 + (cp \div 64), 128 + (cp % 64)>>
            ELSE IF cp < 65536
            THEN <<224 + (cp \div 4096), 128 + ((cp \div 64) % 64),
                   128 + (cp % 64)>>
            ELSE <<240 + (cp \div 262144), 128 + ((cp \div 4096) % 64),
                   128 + ((cp \div 64) % 64), 128 + (cp % 64)>>
        replacement == <<239, 191, 189>>
    IN  IF Len(t) = 0 THEN [err |-> FALSE, bytes |-> <<>>]
        ELSE IF t[1] = 92 THEN
            (IF Len(t) < 2 THEN fail
             ELSE IF t[2] = 117 THEN
                 LET rr == getu4(1)
                     rr1 == getu4(7)
                 IN  IF rr < 0 THEN fail
                     ELSE IF rr < 55296 \/ rr > 57343 THEN then(encode(rr), 6)
                     ELSE IF rr < 56320 /\ rr1 >= 56320 /\ rr1 <= 57343
                     THEN then(encode(65536 + (rr - 55296) * 1024
                                        + (rr1 - 56320)), 12)
                     ELSE then(replacement, 6)
             ELSE IF t[2] = 34 \/ t[2] = 92 \/ t[2] = 47 THEN then(<<t[2]>>, 2)
             ELSE IF t[2] = 98 THEN then(<<8>>, 2)
             ELSE IF t[2] = 102 THEN then(<<12>>, 2)
             ELSE IF t[2] = 110 THEN then(<<10>>, 2)
             ELSE IF t[2] = 114 THEN then(<<13>>, 2)
             ELSE IF t[2] = 116 THEN then(<<9>>, 2)
             ELSE fail)
        ELSE IF t[1] = 34 \/ t[1] < 32 THEN fail
        ELSE IF Utf8Size(t) = 0 THEN then(replacement, 1)
        ELSE then(SubSeq(t, 1, Utf8Size(t)), Utf8Size(t))

\* a text that went through json.Marshal as a string value `depth` times
RECURSIVE JsonEscapeTimes(_, _)
JsonEscapeTimes(s, depth) ==
    IF depth = 0 THEN s ELSE JsonEscapeTimes(JsonEscape(s), depth - 1)

RECURSIVE SumSeq(_)
SumSeq(q) == IF Len(q) = 0 THEN 0 ELSE Head(q) + SumSeq(Tail(q))

\* length of json.MarshalIndent(ref, "", "\t") (indent) or json.Marshal(ref)
\* once the text was wrapped `depth` times as a string value of an enclosing
\* json.Marshal, the newlines and tabs of the indentation `space` times: per
\* field the quoted key, the colon, the quoted value and the separator (with
\* indent also a newline, a tab and a space).  The identifier is set by
\* types.NewReferenceMsg and left empty by the struct literal of
\* newSqsReferenceMessage; it and the 32 hex digits of a digest hold nothing
\* that is escaped
JsonLenAt(ref, indent, depth, space) ==
    LET quote == Len(JsonEscapeTimes(<<34>>, depth))
        newline == Len(JsonEscapeTimes(<<10>>, space))
        tab == Len(JsonEscapeTimes(<<9>>, space))
        per == IF indent THEN 4 * quote + 3 + newline + tab ELSE 4 * quote + 2
    IN  Len(IdentifierKey) + SumSeq([i \in 1..Len(RefKeys) |-> Len(RefKeys[i])])
          + (IF indent THEN 0 ELSE Len(referenceMsgIdentifierKey))
          + Len(JsonEscapeTimes(ref.S3Region, depth + 1))
          + Len(JsonEscapeTimes(ref.S3Bucket, depth + 1))
          + Len(JsonEscapeTimes(ref.S3Key, depth + 1))
          + DigestLen(ref.Md5Body) + DigestLen(ref.Md5Attr)
          + (Len(RefKeys) + 1) * per
          + (IF indent THEN 1 + newline ELSE 1)

JsonLen(ref, indent) == JsonLenAt(ref, indent, 0, 0)

\* len of the text of a body that stands `depth` levels deep in string values
\* written by json.Marshal.  types.SQSMessage escapes its Message once more.
\* Of the escapes of types.SNSMessage the three ReplaceAll calls of the SNS
\* wrapper undo those of the quote and the backslash and leave the others
\* (its Message holds no raw newline any more, so the first call removes
\* nothing): `kept` is 1 for the Message of a types.SNSMessage, where the
\* bytes other than the quote and the backslash stand one level deeper - raw
\* bytes and the newlines and tabs json.MarshalIndent writes; the text of
\* json.Marshal holds only bytes which that level leaves as they are
RECURSIVE BodyLenAt(_, _, _)
BodyLenAt(body, depth, kept) ==
    IF body.kind = "rep"
    THEN body.n * Len(JsonEscapeTimes(<<body.c>>,
                          IF body.c = 34 \/ body.c = 92 THEN depth
                          ELSE depth + kept))
    ELSE IF body.kind = "ref"
    THEN JsonLenAt(body.ref, body.indent, depth, depth + kept)
    ELSE IF body.kind = "sqsmsg"
    THEN Len(JsonEscapeTimes(SqsEnvelope, depth))
           + BodyLenAt(body.Message, depth + 1, 0)
    ELSE Len(JsonEscapeTimes(SnsEnvelope, depth)) + BodyLenAt(body.Message, depth, 1)

BodyLen(body) == BodyLenAt(body, 0, 0)

----------------------------------------------------------------------------
(* Message attributes: a function from attribute name to                   *)
(* [DataType, StringValue, BinaryValue]; a nil pointer is the empty string *)

NoAttributes == [k \in {} |-> [DataType |-> <<>>, StringValue |-> <<>>, BinaryValue |-> <<>>]]

StringAttr(v) == [DataType |-> TypeString, StringValue |-> v, BinaryValue |-> <<>>]

BinaryAttr(v) == [DataType |-> TypeBinary, StringValue |-> <<>>, BinaryValue |-> v]

\* a test that takes only String for a string value
IsStringOnly(dataType) == HasPrefix(dataType, TypeString)

IsStringLike(dataType) ==
    HasPrefix(dataType, TypeString) \/ HasPrefix(dataType, TypeNumber)

IsBinary(dataType) == HasPrefix(dataType, TypeBinary)

Supported(attrs) ==
    \A k \in DOMAIN attrs :
        IsStringLike(attrs[k].DataType) \/ IsBinary(attrs[k].DataType)

RECURSIVE AttrSize(_, _)
AttrSize(attrs, names) ==
    IF names = {} THEN 0
    ELSE LET k == CHOOSE x \in names : TRUE
             v == attrs[k]
         IN  Len(k) + Len(v.DataType)
               + (IF IsStringLike(v.DataType) THEN Len(v.StringValue)
                  ELSE Len(v.BinaryValue))
               + AttrSize(attrs, names \ {k})

\* msgSize: the size, or -1 with an error when a dataType is not recognised
msgSize(body, attrs) ==
    IF Supported(attrs)
    THEN [err |-> FALSE, size |-> BodyLen(body) + AttrSize(attrs, DOMAIN attrs)]
    ELSE [err |-> TRUE, size |-> -1]

\* messages.MessageSize, used by the SNS wrapper
MessageSize(body, attrs) == msgSize(body, attrs)

----------------------------------------------------------------------------
(* Classification of a send by its computed size *)

\* a threshold test that sends a message of exactly the limit to the store
SqsClassifyStrict(size) ==
    IF size < MaxSqsMessageLengthBytes THEN "SendInline"
    ELSE IF size > MaxHeftyMessageLengthBytes THEN "Reject"
    ELSE "SendOffloaded"

SqsClassify(size) ==
    IF size <= MaxSqsMessageLengthBytes THEN "SendInline"
    ELSE IF size > MaxHeftyMessageLengthBytes THEN "Reject"
    ELSE "SendOffloaded"

\* a validation that does not look at the always-offload option
SnsClassifyIgnoringOverride(always, size) ==
    IF size <= MaxAwsMessageLengthBytes THEN "SendInline"
    ELSE IF size > MaxHeftyMessageLengthBytes THEN "Reject"
    ELSE "SendOffloaded"

\* a validation in which the always-offload option skips the ceiling too
SnsClassifyAlwaysFirst(always, size) ==
    IF always THEN "SendOffloaded"
    ELSE IF size <= MaxAwsMessageLengthBytes THEN "SendInline"
    ELSE IF size > MaxHeftyMessageLengthBytes THEN "Reject"
    ELSE "SendOffloaded"

SnsClassify(always, size) ==
    IF ~always /\ size <= MaxAwsMessageLengthBytes THEN "SendInline"
    ELSE IF size > MaxHeftyMessageLengthBytes THEN "Reject"
    ELSE "SendOffloaded"

----------------------------------------------------------------------------
(* Payload codecs and digests *)

\* the attribute digest: the empty string when there are no attributes
AttributeDigest(attrs) ==
    IF DOMAIN attrs = {} THEN EmptyDigest
    ELSE Md5Digest([kind |-> "attrs", attrs |-> attrs])

NoBlob == [codec |-> "none", Body |-> Rep(0, 0), MessageAttributes |-> NoAttributes]

\* largeSqsMsg.Serialize: the blob and the digests of the original body and
\* attributes
Serialize(body, attrs) ==
    [serialized |-> [codec |-> "largeSqsMsg", Body |-> body, MessageAttributes |-> attrs],
     bodyHash |-> Md5Digest(body),
     attributesHash |-> AttributeDigest(attrs)]

\* largeSqsMsg.Deserialize
Deserialize(blob) ==
    IF blob.codec = "largeSqsMsg"
    THEN [err |-> FALSE, Body |-> blob.Body, MessageAttributes |-> blob.MessageAttributes]
    ELSE [err |-> TRUE, Body |-> Rep(0, 0), MessageAttributes |-> NoAttributes]

\* messages.NewHeftyMessage(...).Serialize(): body section then attribute section
HeftySerialize(body, attrs) ==
    [serialized |-> [codec |-> "heftyMsg", Body |-> body, MessageAttributes |-> attrs],
     bodySection |-> body,
     attrSection |-> [kind |-> "attrs", attrs |-> attrs]]

----------------------------------------------------------------------------
(* Reference messages *)

Nil == [isNil |-> TRUE, v |-> <<>>]

Some(s) == [isNil |-> FALSE, v |-> s]

NoRef ==
    [S3Region |-> <<>>, S3Bucket |-> <<>>, S3Key |-> <<>>,
     Md5Body |-> EmptyDigest, Md5Attr |-> EmptyDigest]

\* a token that is the same at every draw
UuidFixed(n) == UuidPrefix \o <<48>>

\* uuid.New().String(): the n-th token drawn
Uuid(n) == UuidPrefix \o <<48 + n>>

\* a reference message built without the token count test
newSqsReferenceMessageUnchecked(queueUrl, bucketName, region, bodyHash, attributesHash, uuid) ==
    IF ~queueUrl.isNil
    THEN LET tokens == Split(queueUrl.v, Slash[1])
         IN  [err |-> FALSE,
              ref |-> [S3Region |-> region,
                       S3Bucket |-> bucketName,
                       S3Key |-> tokens[Len(tokens)] \o Slash \o uuid,
                       Md5Body |-> bodyHash,
                       Md5Attr |-> attributesHash]]
    ELSE [err |-> TRUE, ref |-> NoRef]

\* newSqsReferenceMessage: S3Key is queueName/uuid
newSqsReferenceMessage(queueUrl, bucketName, region, bodyHash, attributesHash, uuid) ==
    IF ~queueUrl.isNil
    THEN LET tokens == Split(queueUrl.v, Slash[1])
         IN  IF Len(tokens) # 5
             THEN [err |-> TRUE, ref |-> NoRef]
             ELSE [err |-> FALSE,
                   ref |-> [S3Region |-> region,
                            S3Bucket |-> bucketName,
                            S3Key |-> tokens[5] \o Slash \o uuid,
                            Md5Body |-> bodyHash,
                            Md5Attr |-> attributesHash]]
    ELSE [err |-> TRUE, ref |-> NoRef]

\* newSnsReferenceMessage: the key is built from the fifth token of the ARN
newSnsReferenceMessage(topicArn, bucketName, region, msgBodyHash, msgAttrHash, uuid) ==
    IF ~topicArn.isNil
    THEN LET tokens == Split(topicArn.v, Colon[1])
         IN  IF Len(tokens) # 6
             THEN [err |-> TRUE, ref |-> NoRef]
             ELSE [err |-> FALSE,
                   ref |-> [S3Region |-> region,
                            S3Bucket |-> bucketName,
                            S3Key |-> tokens[5] \o Slash \o uuid,
                            Md5Body |-> msgBodyHash,
                            Md5Attr |-> msgAttrHash]]
    ELSE [err |-> TRUE, ref |-> NoRef]

\* json.Unmarshal([]byte(body), &refMsg): an error for a text that is not
\* JSON or not a JSON object; the fields of a reference, indented or not; a
\* refMsg left at its zero value for the SQSMessage envelope, an object with
\* none of the fields.  A field comes back as it was written, a byte that is
\* not UTF-8 as U+FFFD.  The text of the SNS envelope is JSON only when the
\* unescaped quotes and backslashes of its inner text leave it so; the text
\* of one repeated byte is never an object
Unmarshal(body) ==
    IF body.kind = "ref"
    THEN [err |-> FALSE,
          ref |-> [body.ref EXCEPT
                      !.S3Region = JsonUnescape(JsonEscape(@)).bytes,
                      !.S3Bucket = JsonUnescape(JsonEscape(@)).bytes,
                      !.S3Key = JsonUnescape(JsonEscape(@)).bytes]]
    ELSE IF body.kind = "sqsmsg" THEN [err |-> FALSE, ref |-> NoRef]
    ELSE IF /\ body.kind = "snsmsg"
            /\ body.Message.kind = "rep"
            /\ \/ body.Message.n = 0
               \/ body.Message.c # 34 /\ body.Message.c # 92
               \/ body.Message.c = 92 /\ body.Message.n % 2 = 0
    THEN [err |-> FALSE, ref |-> NoRef]
    ELSE [err |-> TRUE, ref |-> NoRef]

\* the marker attribute map that replaces the attributes of an offloaded send
MarkerAttributes == heftyClientVersionMessageKey :> StringAttr(B("v0.1"))

----------------------------------------------------------------------------
(* Receipt handles *)

\* ReceiveHeftyMessage: Sprintf("%s|%s|%s|%s", ...) then base64
WrapReceiptHandle(handle, bucket, key) ==
    EncodeToString(receiptHandlePrefix \o Pipe \o handle \o Pipe \o bucket \o Pipe \o key)

\* an unwrap that only requires the tokens it uses to be there
UnwrapReceiptHandleLenient(rh) ==
    LET d == DecodeString(rh)
        none == [handle |-> <<>>, bucket |-> <<>>, key |-> <<>>]
    IN  IF d.err THEN [kind |-> "decodeError"] @@ none
        ELSE IF ~HasPrefix(d.bytes, receiptHandlePrefix)
        THEN [kind |-> "native"] @@ none
        ELSE LET tokens == Split(d.bytes, Pipe[1])
             IN  IF Len(tokens) < expectedReceiptHandleTokenCount
                 THEN [kind |-> "malformed"] @@ none
                 ELSE [kind |-> "hefty", handle |-> tokens[2],
                       bucket |-> tokens[3], key |-> tokens[4]]

\* DeleteHeftyMessage: base64 decode, prefix test, split and token count
UnwrapReceiptHandle(rh) ==
    LET d == DecodeString(rh)
        none == [handle |-> <<>>, bucket |-> <<>>, key |-> <<>>]
    IN  IF d.err THEN [kind |-> "decodeError"] @@ none
        ELSE IF ~HasPrefix(d.bytes, receiptHandlePrefix)
        THEN [kind |-> "native"] @@ none
        ELSE LET tokens == Split(d.bytes, Pipe[1])
             IN  IF Len(tokens) # expectedReceiptHandleTokenCount
                 THEN [kind |-> "malformed"] @@ none
                 ELSE [kind |-> "hefty", handle |-> tokens[2],
                       bucket |-> tokens[3], key |-> tokens[4]]

----------------------------------------------------------------------------
(* State *)

VARIABLES
    alwaysSendToS3, \* SnsClientWrapper.alwaysSendToS3, set at construction
    handleStyle,    \* the form of the receipt handles the queue issues
    queue,          \* the SQS queue: MessageId -> message held
    topic,          \* the SNS topic: operation -> message it accepted
    store,          \* the S3 bucket: <<bucket, key>> -> blob
    ops,            \* the operations started so far, each with its locals,
                    \* its result and the collaborator calls it has made
    uuids,          \* how many uuids have been drawn
    probe           \* the input and result of a pure function under test

vars == <<alwaysSendToS3, handleStyle, queue, topic, store, ops, uuids, probe>>

\* bounds of the model
MaxOps == 3

MaxInFlight == 2

MaxBatch == 2

\* entries of one SendMessageBatch request
MaxEntries == 2

\* how far around each threshold the sizes under test reach
Near == 2

\* wrapper configuration
Bucket == B("bkt")

Region == B("us")

\* the one queue and the one topic that exist
TheQueueUrl == B("h://s/1/Q")

TheTopicArn == B("arn:aws:sns:us:1:T")

\* errors: the message the wrapper wrote, and the collaborator error it holds
NoErr == [msg |-> "", cause |-> ""]

Err(msg, cause) == [msg |-> msg, cause |-> cause]

Failed(op) == op.err # NoErr

NoOut ==
    [isNil |-> TRUE, MessageId |-> 0,
     MD5OfMessageBody |-> EmptyDigest, MD5OfMessageAttributes |-> EmptyDigest]

NoProbe == [fn |-> "none"]

Call(api, target, ok) == [api |-> api, target |-> target, ok |-> ok]

InFlight == {i \in 1..Len(ops) : ops[i].pc # "done"}

CanStart == Len(ops) < MaxOps /\ Cardinality(InFlight) < MaxInFlight

Outcomes(possible) == IF possible THEN {TRUE, FALSE} ELSE {FALSE}

Without(f, k) == [x \in DOMAIN f \ {k} |-> f[x]]

----------------------------------------------------------------------------
(* Inputs *)

EmptyBody == Rep(97, 0)

SmallBody == Rep(97, 2)

BigBody == Rep(97, MaxSqsMessageLengthBytes + 1)

HugeBody == Rep(97, MaxHeftyMessageLengthBytes + 1)

OneAttribute == B("k") :> StringAttr(B("v"))

SendParams(u, b, a) == [QueueUrl |-> u, MessageBody |-> b, MessageAttributes |-> a]

SendInputs ==
    {SendParams(Some(TheQueueUrl), SmallBody, OneAttribute),
     SendParams(Some(TheQueueUrl), BigBody, OneAttribute),
     SendParams(Some(TheQueueUrl), BigBody, NoAttributes),
     SendParams(Some(TheQueueUrl), HugeBody, NoAttributes),
     SendParams(Some(TheQueueUrl), EmptyBody, NoAttributes),
     SendParams(Some(B("Q")), BigBody, OneAttribute)}

\* an attribute whose data type msgSize does not recognise
UnsupportedAttribute ==
    B("k") :> [DataType |-> B("Foo"), StringValue |-> B("v"), BinaryValue |-> <<>>]

\* inputs that fail validation: an unexpected data type, no queue URL
InvalidSendInputs ==
    {SendParams(Some(TheQueueUrl), BigBody, UnsupportedAttribute),
     SendParams(Nil, BigBody, OneAttribute)}

AttributeAll == B("All")

\* params.MessageAttributeNames of a receive: nil, or a list of names
ReceiveInputs == {Nil, Some(<<AttributeAll>>), Some(<<B("k")>>)}

----------------------------------------------------------------------------
(* The SQS service, as the wrapper sees it *)

\* SendMessage is accepted only for the existing queue and a message that
\* fits the queue; any call may also fail for reasons of its own
SqsAccepts(params) ==
    /\ ~params.QueueUrl.isNil
    /\ params.QueueUrl.v = TheQueueUrl
    /\ BodyLen(params.MessageBody) >= 1
    /\ Supported(params.MessageAttributes)
    /\ msgSize(params.MessageBody, params.MessageAttributes).size
           <= MaxSqsMessageLengthBytes

\* the id the queue gives to the message of entry k of operation i (a
\* SendMessage has one entry), and the operation that sent message id
EntryId(i, k) == i + (k - 1) * (MaxOps + 1)

SenderOf(id) == ((id - 1) % (MaxOps + 1)) + 1

\* the message the queue holds after an accepted SendMessage by operation i
Enqueued(i, params) ==
    [MessageId |-> i,
     Body |-> params.MessageBody,
     MessageAttributes |-> params.MessageAttributes]

\* sqs.SendMessageOutput of an accepted SendMessage
SendOutput(i, params) ==
    [isNil |-> FALSE, MessageId |-> i,
     MD5OfMessageBody |-> Md5Digest(params.MessageBody),
     MD5OfMessageAttributes |-> AttributeDigest(params.MessageAttributes)]

\* the receipt handle the queue issues for message id: base64 text that does
\* not decode to the hefty prefix, or text that is no base64 at all
NativeHandle(id) ==
    IF handleStyle = "base64" THEN B("rh") \o <<48 + id>> \o B("A")
    ELSE B("rh-") \o <<48 + id>>

\* the attributes the queue returns for the requested names
Requested(attrs, names) ==
    IF \E n \in 1..Len(names) : names[n] = AttributeAll
    THEN attrs
    ELSE [k \in {x \in DOMAIN attrs : \E n \in 1..Len(names) : names[n] = x}
            |-> attrs[k]]

\* one message of sqs.ReceiveMessageOutput
Delivered(m, names) ==
    [MessageId |-> m.MessageId,
     Body |-> m.Body,
     MessageAttributes |-> Requested(m.MessageAttributes, names),
     MD5OfBody |-> Md5Digest(m.Body),
     MD5OfMessageAttributes |-> AttributeDigest(Requested(m.MessageAttributes, names)),
     ReceiptHandle |-> NativeHandle(m.MessageId)]

\* the batches a ReceiveMessage can return: up to MaxBatch distinct messages
\* of the queue, in any order (a message is redelivered until it is deleted)
Batches ==
    {q \in UNION {[1..n -> DOMAIN queue] : n \in 0..MaxBatch} :
        \A a, b \in 1..Len(q) : a # b => q[a] # q[b]}

----------------------------------------------------------------------------
(* SqsClientWrapper.SendHeftyMessage *)

SendOp(params) ==
    [kind |-> "send", pc |-> "start", params |-> params, in |-> params,
     size |-> 0, class |-> "", serialized |-> NoBlob,
     bodyHash |-> EmptyDigest, attributesHash |-> EmptyDigest,
     refMsg |-> NoRef, out |-> NoOut, err |-> NoErr, calls |-> <<>>]

\* the call up to its first collaborator call: validation, size, threshold,
\* serialization and the reference message
SendBegin(params) ==
    LET op == SendOp(params)
        sz == msgSize(params.MessageBody, params.MessageAttributes)
        class == SqsClassify(sz.size)
        ser == Serialize(params.MessageBody, params.MessageAttributes)
        made == newSqsReferenceMessage(params.QueueUrl, Bucket, Region,
                                       ser.bodyHash, ser.attributesHash,
                                       Uuid(uuids + 1))
        sized == [op EXCEPT !.size = sz.size, !.class = class]
        serial == [sized EXCEPT !.serialized = ser.serialized,
                                !.bodyHash = ser.bodyHash,
                                !.attributesHash = ser.attributesHash]
    IN  IF BodyLen(params.MessageBody) = 0
        THEN [op EXCEPT !.pc = "SendMessage", !.class = "PassThrough"]
        ELSE IF sz.err
        THEN [op EXCEPT !.pc = "done",
                        !.err = Err("unable to check message size", "")]
        ELSE IF class = "SendInline"
        THEN [sized EXCEPT !.pc = "SendMessage"]
        ELSE IF class = "Reject"
        THEN [sized EXCEPT !.pc = "done",
                           !.err = Err("message size greater than allowed message size", "")]
        ELSE IF made.err
        THEN [serial EXCEPT !.pc = "done",
                            !.err = Err("unable to create reference message from queueUrl", "")]
        ELSE [serial EXCEPT !.pc = "Upload", !.refMsg = made.ref]

StartSend(params) ==
    /\ CanStart
    /\ LET op == SendBegin(params)
       IN  /\ ops' = Append(ops, op)
           /\ uuids' = IF op.pc = "Upload" THEN uuids + 1 ELSE uuids
    /\ UNCHANGED <<alwaysSendToS3, handleStyle, queue, topic, store, probe>>

\* a caller sends a fresh message
SendHeftyMessage == \E params \in SendInputs : StartSend(params)

\* a caller sends a message that does not pass validation
SendInvalidHeftyMessage == \E params \in InvalidSendInputs : StartSend(params)

\* a caller passes again the input structure of a send that has returned
\* (the structure is passed by pointer and an offloaded send writes to it)
ResendHeftyMessage ==
    \E j \in 1..Len(ops) :
        /\ ops[j].kind = "send"
        /\ ops[j].pc = "done"
        /\ ops[j].params # ops[j].in
        /\ StartSend(ops[j].params)

\* client.SendMessage on the inline and pass-through paths
SendDirect(i) ==
    /\ ops[i].kind = "send"
    /\ ops[i].pc = "SendMessage"
    /\ \E ok \in Outcomes(SqsAccepts(ops[i].params)) :
        LET call == Call("SendMessage", ops[i].params.QueueUrl.v, ok)
        IN  IF ok
            THEN /\ queue' = (i :> Enqueued(i, ops[i].params)) @@ queue
                 /\ ops' = [ops EXCEPT ![i].pc = "done",
                                       ![i].out = SendOutput(i, ops[i].params),
                                       ![i].calls = Append(@, call)]
            ELSE /\ queue' = queue
                 /\ ops' = [ops EXCEPT ![i].pc = "done",
                                       ![i].err = Err("", "SendMessage"),
                                       ![i].calls = Append(@, call)]
    /\ UNCHANGED <<alwaysSendToS3, handleStyle, topic, store, uuids, probe>>

\* the message as SendHeftyMessage rewrites it after the upload: the body is
\* json.MarshalIndent(refMsg, "", "\t"), the only attribute is the marker
Referenced(params, refMsg) ==
    [params EXCEPT
        !.MessageBody = [kind |-> "ref", indent |-> TRUE, ref |-> refMsg],
        !.MessageAttributes = MarkerAttributes]

\* an upload that is tried once more after an error
UploadedRetrying(op, ok) ==
    IF ok
    THEN [op EXCEPT !.pc = "SendReference",
                    !.params = Referenced(@, op.refMsg)]
    ELSE IF Len(op.calls) < 2
    THEN op
    ELSE [op EXCEPT !.pc = "done",
                    !.err = Err("unable to upload large message to s3", "PutObject")]

\* an upload whose error is not checked
UploadedUnchecked(op, ok) ==
    [op EXCEPT !.pc = "SendReference",
               !.params = Referenced(@, op.refMsg)]

\* the send after client.uploader.Upload has returned: an error ends it,
\* success rewrites the input structure for the queue send
Uploaded(op, ok) ==
    IF ok
    THEN [op EXCEPT !.pc = "SendReference",
                    !.params = Referenced(@, op.refMsg)]
    ELSE [op EXCEPT !.pc = "done",
                    !.err = Err("unable to upload large message to s3", "PutObject")]

\* client.uploader.Upload
Upload(i) ==
    /\ ops[i].kind = "send"
    /\ ops[i].pc = "Upload"
    /\ \E ok \in BOOLEAN :
        LET at == <<Bucket, ops[i].refMsg.S3Key>>
            called == [ops[i] EXCEPT !.calls = Append(@, Call("PutObject", at, ok))]
        IN  /\ store' = IF ok THEN (at :> ops[i].serialized) @@ store ELSE store
            /\ ops' = [ops EXCEPT ![i] = Uploaded(called, ok)]
    /\ UNCHANGED <<alwaysSendToS3, handleStyle, queue, topic, uuids, probe>>

\* the output of an offloaded send: the digests of the original message
\* overwrite those the queue computed
Overwritten(out, bodyHash, attributesHash) ==
    [out EXCEPT !.MD5OfMessageBody = bodyHash,
                !.MD5OfMessageAttributes = attributesHash]

\* a queue send whose error is not returned
ReferenceSentSilently(op, out, ok) ==
    [op EXCEPT !.pc = "done",
               !.out = Overwritten(out, op.bodyHash, op.attributesHash)]

\* the send after client.SendMessage of the reference has returned: out and
\* err are returned as they are on an error
ReferenceSent(op, out, ok) ==
    IF ok
    THEN [op EXCEPT !.pc = "done",
                    !.out = Overwritten(out, op.bodyHash, op.attributesHash)]
    ELSE [op EXCEPT !.pc = "done", !.err = Err("", "SendMessage")]

\* client.SendMessage of the reference message
SendReference(i) ==
    /\ ops[i].kind = "send"
    /\ ops[i].pc = "SendReference"
    /\ \E ok \in Outcomes(SqsAccepts(ops[i].params)) :
        LET call == Call("SendMessage", ops[i].params.QueueUrl.v, ok)
            called == [ops[i] EXCEPT !.calls = Append(@, call)]
        IN  /\ queue' = IF ok THEN (i :> Enqueued(i, ops[i].params)) @@ queue
                        ELSE queue
            /\ ops' = [ops EXCEPT ![i] =
                          ReferenceSent(called, SendOutput(i, ops[i].params), ok)]
    /\ UNCHANGED <<alwaysSendToS3, handleStyle, topic, store, uuids, probe>>

----------------------------------------------------------------------------
(* SqsClientWrapper.SendHeftyMessageBatch: the SDK's SendMessageBatch,      *)
(* with no size test, no offload and no marker attribute                   *)

\* params of a batch send: the queue and one entry, two entries, or one
\* entry that does not fit the queue
BatchInputs ==
    LET BatchEntry(id, b, a) ==
            [Id |-> id, MessageBody |-> b, MessageAttributes |-> a]
    IN  {[QueueUrl |-> Some(TheQueueUrl),
          Entries |-> <<BatchEntry(B("1"), SmallBody, NoAttributes)>>],
         [QueueUrl |-> Some(TheQueueUrl),
          Entries |-> <<BatchEntry(B("1"), SmallBody, NoAttributes),
                        BatchEntry(B("2"), SmallBody, OneAttribute)>>],
         [QueueUrl |-> Some(TheQueueUrl),
          Entries |-> <<BatchEntry(B("1"), BigBody, NoAttributes)>>]}

\* SendMessageBatch is accepted only for the existing queue and one to ten
\* entries of distinct ids whose messages fit the queue together; any call
\* may also fail for reasons of its own
BatchAccepts(params) ==
    /\ ~params.QueueUrl.isNil
    /\ params.QueueUrl.v = TheQueueUrl
    /\ Len(params.Entries) >= 1
    /\ Len(params.Entries) <= 10
    /\ \A a, b \in 1..Len(params.Entries) :
         a # b => params.Entries[a].Id # params.Entries[b].Id
    /\ \A k \in 1..Len(params.Entries) :
         /\ BodyLen(params.Entries[k].MessageBody) >= 1
         /\ Supported(params.Entries[k].MessageAttributes)
    /\ SumSeq([k \in 1..Len(params.Entries) |->
                  msgSize(params.Entries[k].MessageBody,
                          params.Entries[k].MessageAttributes).size])
         <= MaxSqsMessageLengthBytes

BatchOp(params) ==
    [kind |-> "batch", pc |-> "SendMessageBatch", params |-> params,
     in |-> params, successful |-> {}, outNil |-> TRUE, err |-> NoErr,
     calls |-> <<>>]

\* the queue q after the entries `successful` of the batch of operation i
\* have been accepted
BatchEnqueued(i, entries, successful, q) ==
    [id \in {EntryId(i, k) : k \in successful} \cup DOMAIN q |->
        IF id \in DOMAIN q THEN q[id]
        ELSE Enqueued(id, entries[CHOOSE k \in successful : EntryId(i, k) = id])]

\* a caller sends a batch: the parameters go to the SDK as they are
SendHeftyMessageBatch ==
    /\ CanStart
    /\ \E params \in BatchInputs : ops' = Append(ops, BatchOp(params))
    /\ UNCHANGED <<alwaysSendToS3, handleStyle, queue, topic, store, uuids, probe>>

\* client.SendMessageBatch: out and err are returned as they are; an accepted
\* request reports each entry as successful, its message then in the queue,
\* or as failed
SendMessageBatch(i) ==
    /\ ops[i].kind = "batch"
    /\ ops[i].pc = "SendMessageBatch"
    /\ \E ok \in Outcomes(BatchAccepts(ops[i].params)) :
        LET call == Call("SendMessageBatch", ops[i].params.QueueUrl.v, ok)
            entries == ops[i].params.Entries
        IN  IF ok
            THEN \E successful \in SUBSET (1..Len(entries)) :
                   /\ queue' = BatchEnqueued(i, entries, successful, queue)
                   /\ ops' = [ops EXCEPT ![i].pc = "done",
                                         ![i].successful = successful,
                                         ![i].outNil = FALSE,
                                         ![i].calls = Append(@, call)]
            ELSE /\ queue' = queue
                 /\ ops' = [ops EXCEPT ![i].pc = "done",
                                       ![i].err = Err("", "SendMessageBatch"),
                                       ![i].calls = Append(@, call)]
    /\ UNCHANGED <<alwaysSendToS3, handleStyle, topic, store, uuids, probe>>

----------------------------------------------------------------------------
(* SqsClientWrapper.ReceiveHeftyMessage *)

\* the marker attribute is added to the requested attribute names
WithMarkerName(names) ==
    IF names.isNil THEN <<heftyClientVersionMessageKey>>
    ELSE Append(names.v, heftyClientVersionMessageKey)

ReceiveOp(names) ==
    [kind |-> "receive", pc |-> "ReceiveMessage",
     names |-> WithMarkerName(names), in |-> names,
     delivered |-> <<>>, msgs |-> <<>>, i |-> 0, refMsg |-> NoRef,
     outNil |-> TRUE, err |-> NoErr, calls |-> <<>>]

ReceiveHeftyMessage ==
    /\ CanStart
    /\ \E names \in ReceiveInputs : ops' = Append(ops, ReceiveOp(names))
    /\ UNCHANGED <<alwaysSendToS3, handleStyle, queue, topic, store, uuids, probe>>

\* a loop that does not skip the messages without the marker attribute
MarkerIgnored(m) == TRUE

HasMarker(m) == heftyClientVersionMessageKey \in DOMAIN m.MessageAttributes

\* a failure that hands the caller the list as far as it was worked on
PartlyDelivered(op, msg, cause) ==
    [op EXCEPT !.pc = "done", !.outNil = FALSE, !.err = Err(msg, cause)]

\* a failure that is recorded while the receive does not return
Unreturned(op, msg, cause) ==
    [op EXCEPT !.pc = "failed", !.outNil = TRUE, !.err = Err(msg, cause)]

\* return nil, fmt.Errorf(...): the receive ends without a message list
Undelivered(op, msg, cause) ==
    [op EXCEPT !.pc = "done", !.outNil = TRUE, !.err = Err(msg, cause)]

\* the loop over out.Messages from index `from` up to its next Download call:
\* messages without the marker are skipped, the body of a marked one is
\* unmarshalled
Scan(op, from) ==
    IF \E j \in from..Len(op.msgs) : HasMarker(op.msgs[j])
    THEN LET j == CHOOSE x \in from..Len(op.msgs) :
                      /\ HasMarker(op.msgs[x])
                      /\ \A y \in from..(x - 1) : ~HasMarker(op.msgs[y])
             un == Unmarshal(op.msgs[j].Body)
         IN  IF un.err
             THEN Undelivered([op EXCEPT !.i = j],
                              "unable to unmarshal reference message", "")
             ELSE [op EXCEPT !.pc = "Download", !.i = j, !.refMsg = un.ref]
    ELSE [op EXCEPT !.pc = "done", !.outNil = FALSE, !.i = Len(op.msgs) + 1]

\* client.ReceiveMessage
ReceiveMessage(i) ==
    /\ ops[i].kind = "receive"
    /\ ops[i].pc = "ReceiveMessage"
    /\ \/ \E batch \in Batches :
            LET msgs == [n \in 1..Len(batch) |-> Delivered(queue[batch[n]], ops[i].names)]
                got == [ops[i] EXCEPT
                           !.delivered = msgs, !.msgs = msgs,
                           !.calls = Append(@, Call("ReceiveMessage", TheQueueUrl, TRUE))]
            IN  ops' = [ops EXCEPT ![i] = Scan(got, 1)]
       \/ ops' = [ops EXCEPT
                    ![i].pc = "done",
                    ![i].err = Err("", "ReceiveMessage"),
                    ![i].calls = Append(@, Call("ReceiveMessage", TheQueueUrl, FALSE))]
    /\ UNCHANGED <<alwaysSendToS3, handleStyle, queue, topic, store, uuids, probe>>

\* a substitution that leaves the attributes the queue delivered
SubstitutedBodyOnly(m, large, refMsg) ==
    [m EXCEPT
        !.Body = large.Body,
        !.MD5OfBody = refMsg.Md5Body,
        !.MD5OfMessageAttributes = refMsg.Md5Attr,
        !.ReceiptHandle = WrapReceiptHandle(m.ReceiptHandle, refMsg.S3Bucket, refMsg.S3Key)]

\* a substitution that leaves the digests the queue computed
SubstitutedKeepingDigests(m, large, refMsg) ==
    [m EXCEPT
        !.Body = large.Body,
        !.MessageAttributes = large.MessageAttributes,
        !.ReceiptHandle = WrapReceiptHandle(m.ReceiptHandle, refMsg.S3Bucket, refMsg.S3Key)]

\* the received message after the body, attributes, digests and receipt
\* handle have been replaced
Substituted(m, large, refMsg) ==
    [m EXCEPT
        !.Body = large.Body,
        !.MessageAttributes = large.MessageAttributes,
        !.MD5OfBody = refMsg.Md5Body,
        !.MD5OfMessageAttributes = refMsg.Md5Attr,
        !.ReceiptHandle = WrapReceiptHandle(m.ReceiptHandle, refMsg.S3Bucket, refMsg.S3Key)]

\* client.downloader.Download for message ops[i].i, then the decoding and
\* the substitution, and on to the next marked message
Download(i) ==
    /\ ops[i].kind = "receive"
    /\ ops[i].pc = "Download"
    /\ LET op == ops[i]
           at == <<op.refMsg.S3Bucket, op.refMsg.S3Key>>
       IN  \E ok \in Outcomes(at \in DOMAIN store) :
             LET called == [op EXCEPT !.calls = Append(@, Call("GetObject", at, ok))]
                 large == Deserialize(store[at])
             IN  IF ~ok
                 THEN ops' = [ops EXCEPT ![i] =
                                 Undelivered(called, "unable to get message from s3",
                                             "GetObject")]
                 ELSE IF large.err
                 THEN ops' = [ops EXCEPT ![i] =
                                 Undelivered(called,
                                             "unable to decode bytes into large message type",
                                             "")]
                 ELSE ops' = [ops EXCEPT ![i] =
                                 Scan([called EXCEPT
                                          !.msgs[op.i] = Substituted(@, large, op.refMsg)],
                                      op.i + 1)]
    /\ UNCHANGED <<alwaysSendToS3, handleStyle, queue, topic, store, uuids, probe>>

----------------------------------------------------------------------------
(* SqsClientWrapper.DeleteHeftyMessage *)

\* the call up to its first collaborator call
DeleteBegin(handle) ==
    LET op == [kind |-> "delete", pc |-> "start", handle |-> handle,
               in |-> handle, un |-> UnwrapReceiptHandle(handle),
               err |-> NoErr, calls |-> <<>>]
    IN  IF op.un.kind = "decodeError"
        THEN [op EXCEPT !.pc = "done",
                        !.err = Err("could not decode receipt handle", "")]
        ELSE IF op.un.kind = "native"
        THEN [op EXCEPT !.pc = "DeleteMessage"]
        ELSE IF op.un.kind = "malformed"
        THEN [op EXCEPT !.pc = "done",
                        !.err = Err("expected number of tokens not available in receipt handle", "")]
        ELSE [op EXCEPT !.pc = "DeleteObject"]

\* a caller deletes with a receipt handle of a message that a receive returned
DeleteHeftyMessage ==
    /\ CanStart
    /\ \E j \in 1..Len(ops) :
         /\ ops[j].kind = "receive"
         /\ ops[j].pc = "done"
         /\ ~ops[j].outNil
         /\ \E n \in 1..Len(ops[j].msgs) :
              ops' = Append(ops, DeleteBegin(ops[j].msgs[n].ReceiptHandle))
    /\ UNCHANGED <<alwaysSendToS3, handleStyle, queue, topic, store, uuids, probe>>

\* a delete that goes on to the queue with the handle it was given
BlobDeletedKeepingHandle(op, ok) ==
    IF ok
    THEN [op EXCEPT !.pc = "DeleteMessage"]
    ELSE [op EXCEPT !.pc = "done",
                    !.err = Err("could not delete s3 object for large message", "DeleteObject")]

\* the delete after client.s3Client.DeleteObject has returned: an error ends
\* it, on success the native handle replaces the wrapped one
BlobDeleted(op, ok) ==
    IF ok
    THEN [op EXCEPT !.pc = "DeleteMessage", !.handle = op.un.handle]
    ELSE [op EXCEPT !.pc = "done",
                    !.err = Err("could not delete s3 object for large message", "DeleteObject")]

\* client.s3Client.DeleteObject
DeleteObject(i) ==
    /\ ops[i].kind = "delete"
    /\ ops[i].pc = "DeleteObject"
    /\ \E ok \in BOOLEAN :
        LET at == <<ops[i].un.bucket, ops[i].un.key>>
            called == [ops[i] EXCEPT !.calls = Append(@, Call("DeleteObject", at, ok))]
        IN  /\ store' = IF ok THEN Without(store, at) ELSE store
            /\ ops' = [ops EXCEPT ![i] = BlobDeleted(called, ok)]
    /\ UNCHANGED <<alwaysSendToS3, handleStyle, queue, topic, uuids, probe>>

\* a queue delete that takes the other messages of the queue with it
HandledAll(handle) == 1..(MaxEntries * (MaxOps + 1))

\* the messages a receipt handle stands for: the queue knows the handles it
\* has issued
Handled(handle) ==
    {id \in 1..(MaxEntries * (MaxOps + 1)) : NativeHandle(id) = handle}

\* client.DeleteMessage: accepted for a handle the queue issued
DeleteMessage(i) ==
    /\ ops[i].kind = "delete"
    /\ ops[i].pc = "DeleteMessage"
    /\ \E ok \in Outcomes(Handled(ops[i].handle) # {}) :
        LET call == Call("DeleteMessage", ops[i].handle, ok)
        IN  IF ok
            THEN /\ queue' = [id \in DOMAIN queue \ Handled(ops[i].handle) |-> queue[id]]
                 /\ ops' = [ops EXCEPT ![i].pc = "done",
                                       ![i].calls = Append(@, call)]
            ELSE /\ queue' = queue
                 /\ ops' = [ops EXCEPT ![i].pc = "done",
                                       ![i].err = Err("", "DeleteMessage"),
                                       ![i].calls = Append(@, call)]
    /\ UNCHANGED <<alwaysSendToS3, handleStyle, topic, store, uuids, probe>>

----------------------------------------------------------------------------
(* SnsClientWrapper.PublishHeftyMessage *)

PublishParams(t, m, a) == [TopicArn |-> t, Message |-> m, MessageAttributes |-> a]

PublishInputs ==
    {PublishParams(Some(TheTopicArn), SmallBody, OneAttribute),
     PublishParams(Some(TheTopicArn), SmallBody, NoAttributes),
     PublishParams(Some(TheTopicArn), BigBody, OneAttribute),
     PublishParams(Some(TheTopicArn), HugeBody, NoAttributes),
     PublishParams(Some(TheTopicArn), EmptyBody, NoAttributes),
     PublishParams(Some(B("T")), BigBody, OneAttribute),
     PublishParams(Some(TheTopicArn), BigBody, UnsupportedAttribute),
     PublishParams(Nil, BigBody, OneAttribute)}

\* Publish is accepted only for the existing topic and a message that fits
SnsAccepts(params) ==
    /\ ~params.TopicArn.isNil
    /\ params.TopicArn.v = TheTopicArn
    /\ BodyLen(params.Message) >= 1
    /\ Supported(params.MessageAttributes)
    /\ MessageSize(params.Message, params.MessageAttributes).size
           <= MaxAwsMessageLengthBytes

PublishOp(params) ==
    [kind |-> "publish", pc |-> "start", params |-> params, in |-> params,
     size |-> 0, class |-> "", heftyBody |-> Rep(0, 0), serialized |-> NoBlob,
     bodyHash |-> EmptyDigest, attributesHash |-> EmptyDigest,
     refMsg |-> NoRef, outNil |-> TRUE, err |-> NoErr, calls |-> <<>>]

\* json.Marshal(types.SQSMessage{Message: *params.Message})
SqsMessageJson(message) == [kind |-> "sqsmsg", Message |-> message]

\* json.Marshal(types.SNSMessage{Message: string(jsonRefMsg)}) with the
\* escapes of the inner JSON removed
SnsMessageJson(refMsg) ==
    [kind |-> "snsmsg",
     Message |-> [kind |-> "ref", indent |-> FALSE, ref |-> refMsg]]

\* the call up to its first collaborator call: size, threshold, the JSON
\* envelope that replaces params.Message, serialization, digests and the
\* reference message
PublishBegin(params) ==
    LET op == PublishOp(params)
        sz == MessageSize(params.Message, params.MessageAttributes)
        class == SnsClassify(alwaysSendToS3, sz.size)
        enveloped == [params EXCEPT !.Message = SqsMessageJson(params.Message)]
        ser == HeftySerialize(enveloped.Message, params.MessageAttributes)
        msgBodyHash == Md5Digest(ser.bodySection)
        msgAttrHash == IF DOMAIN params.MessageAttributes # {}
                       THEN Md5Digest(ser.attrSection)
                       ELSE EmptyDigest
        made == newSnsReferenceMessage(params.TopicArn, Bucket, Region,
                                       msgBodyHash, msgAttrHash, Uuid(uuids + 1))
        sized == [op EXCEPT !.size = sz.size, !.class = class]
        serial == [sized EXCEPT !.params = enveloped,
                                !.heftyBody = enveloped.Message,
                                !.serialized = ser.serialized,
                                !.bodyHash = msgBodyHash,
                                !.attributesHash = msgAttrHash]
    IN  IF BodyLen(params.Message) = 0
        THEN [op EXCEPT !.pc = "Publish", !.class = "PassThrough"]
        ELSE IF sz.err
        THEN [op EXCEPT !.pc = "done",
                        !.err = Err("unable to get size of message", "")]
        ELSE IF class = "SendInline"
        THEN [sized EXCEPT !.pc = "Publish"]
        ELSE IF class = "Reject"
        THEN [sized EXCEPT !.pc = "done",
                           !.err = Err("message size greater than allowed message size", "")]
        ELSE IF made.err
        THEN [serial EXCEPT !.pc = "done",
                            !.err = Err("unable to create reference message from topicArn", "")]
        ELSE [serial EXCEPT !.pc = "PublishUpload", !.refMsg = made.ref]

StartPublish(params) ==
    /\ CanStart
    /\ \E op \in {PublishBegin(params)} :
         /\ ops' = Append(ops, op)
         /\ uuids' = IF op.pc = "PublishUpload" THEN uuids + 1 ELSE uuids
    /\ UNCHANGED <<alwaysSendToS3, handleStyle, queue, topic, store, probe>>

\* a message that the wrapper offloads
OffloadedPublishInput == PublishParams(Some(TheTopicArn), BigBody, OneAttribute)

\* a caller publishes a message
PublishHeftyMessage == \E params \in PublishInputs : StartPublish(params)

\* wrapper.Publish on the inline and pass-through paths
PublishDirect(i) ==
    /\ ops[i].kind = "publish"
    /\ ops[i].pc = "Publish"
    /\ \E ok \in Outcomes(SnsAccepts(ops[i].params)) :
        LET call == Call("Publish", ops[i].params.TopicArn.v, ok)
        IN  IF ok
            THEN /\ topic' = (i :> [Message |-> ops[i].params.Message,
                                    MessageAttributes |-> ops[i].params.MessageAttributes])
                              @@ topic
                 /\ ops' = [ops EXCEPT ![i].pc = "done", ![i].outNil = FALSE,
                                       ![i].calls = Append(@, call)]
            ELSE /\ topic' = topic
                 /\ ops' = [ops EXCEPT ![i].pc = "done",
                                       ![i].err = Err("", "Publish"),
                                       ![i].calls = Append(@, call)]
    /\ UNCHANGED <<alwaysSendToS3, handleStyle, queue, store, uuids, probe>>

\* the publish after wrapper.uploader.Upload has returned: an error ends it,
\* on success the reference message replaces the message and the attributes
\* are cleared
PublishUploaded(op, ok) ==
    IF ok
    THEN [op EXCEPT !.pc = "PublishReference",
                    !.params.Message = SnsMessageJson(op.refMsg),
                    !.params.MessageAttributes = NoAttributes]
    ELSE [op EXCEPT !.pc = "done",
                    !.err = Err("unable to upload hefty message to s3", "PutObject")]

\* wrapper.uploader.Upload
PublishUpload(i) ==
    /\ ops[i].kind = "publish"
    /\ ops[i].pc = "PublishUpload"
    /\ \E ok \in BOOLEAN :
        LET at == <<Bucket, ops[i].refMsg.S3Key>>
            call == Call("PutObject", at, ok)
            called == [ops[i] EXCEPT !.calls = Append(@, call)]
        IN  /\ store' = IF ok THEN (at :> ops[i].serialized) @@ store ELSE store
            /\ ops' = [ops EXCEPT ![i] = PublishUploaded(called, ok)]
    /\ UNCHANGED <<alwaysSendToS3, handleStyle, queue, topic, uuids, probe>>

\* the deferred function: params.Message = heftyMsg.Body and the attributes
\* are put back
Restored(op) ==
    [op.params EXCEPT !.Message = op.heftyBody,
                      !.MessageAttributes = op.in.MessageAttributes]

\* wrapper.Publish of the reference message, then the deferred restore
PublishReference(i) ==
    /\ ops[i].kind = "publish"
    /\ ops[i].pc = "PublishReference"
    /\ \E ok \in Outcomes(SnsAccepts(ops[i].params)) :
        LET call == Call("Publish", ops[i].params.TopicArn.v, ok)
        IN  IF ok
            THEN /\ topic' = (i :> [Message |-> ops[i].params.Message,
                                    MessageAttributes |-> ops[i].params.MessageAttributes])
                              @@ topic
                 /\ ops' = [ops EXCEPT ![i].pc = "done", ![i].outNil = FALSE,
                                       ![i].params = Restored(ops[i]),
                                       ![i].calls = Append(@, call)]
            ELSE /\ topic' = topic
                 /\ ops' = [ops EXCEPT ![i].pc = "done",
                                       ![i].err = Err("", "Publish"),
                                       ![i].params = Restored(ops[i]),
                                       ![i].calls = Append(@, call)]
    /\ UNCHANGED <<alwaysSendToS3, handleStyle, queue, store, uuids, probe>>

----------------------------------------------------------------------------
(* The SQS wrapper with its queue and bucket *)

Init ==
    /\ alwaysSendToS3 = FALSE
    /\ handleStyle \in {"base64", "opaque"}
    /\ queue = <<>>
    /\ topic = <<>>
    /\ store = <<>>
    /\ ops = <<>>
    /\ uuids = 0
    /\ probe = NoProbe

Next ==
    \/ SendHeftyMessage
    \/ ResendHeftyMessage
    \/ \E i \in 1..Len(ops) : SendDirect(i)
    \/ \E i \in 1..Len(ops) : Upload(i)
    \/ \E i \in 1..Len(ops) : SendReference(i)
    \/ SendHeftyMessageBatch
    \/ \E i \in 1..Len(ops) : SendMessageBatch(i)
    \/ ReceiveHeftyMessage
    \/ \E i \in 1..Len(ops) : ReceiveMessage(i)
    \/ \E i \in 1..Len(ops) : Download(i)
    \/ DeleteHeftyMessage
    \/ \E i \in 1..Len(ops) : DeleteObject(i)
    \/ \E i \in 1..Len(ops) : DeleteMessage(i)

Spec == Init /\ [][Next]_vars

----------------------------------------------------------------------------
(* The senders alone: SendHeftyMessage, SendHeftyMessageBatch and           *)
(* PublishHeftyMessage, with the always-offload option of the SNS wrapper   *)
(* either way                                                               *)

InitSend ==
    /\ alwaysSendToS3 \in BOOLEAN
    /\ handleStyle = "base64"
    /\ queue = <<>>
    /\ topic = <<>>
    /\ store = <<>>
    /\ ops = <<>>
    /\ uuids = 0
    /\ probe = NoProbe

NextSend ==
    \/ SendHeftyMessage
    \/ SendInvalidHeftyMessage
    \/ \E i \in 1..Len(ops) : SendDirect(i)
    \/ \E i \in 1..Len(ops) : Upload(i)
    \/ \E i \in 1..Len(ops) : SendReference(i)
    \/ SendHeftyMessageBatch
    \/ \E i \in 1..Len(ops) : SendMessageBatch(i)
    \/ PublishHeftyMessage
    \/ \E i \in 1..Len(ops) : PublishDirect(i)
    \/ \E i \in 1..Len(ops) : PublishUpload(i)
    \/ \E i \in 1..Len(ops) : PublishReference(i)

SpecSend == InitSend /\ [][NextSend]_vars

----------------------------------------------------------------------------
(* The threshold decision alone: the size of a message is computed and     *)
(* classified as either wrapper does                                       *)

\* body lengths that put the size on, just under and just over each limit,
\* with and without the attribute
BodyLengths ==
    (1..Near)
      \cup ((MaxSqsMessageLengthBytes - 8 - Near)..(MaxSqsMessageLengthBytes + Near))
      \cup ((MaxHeftyMessageLengthBytes - 8 - Near)..(MaxHeftyMessageLengthBytes + Near))

ThresholdInputs ==
    {[fn |-> "classify", step |-> "in", wrapper |-> w, always |-> a,
      body |-> Rep(97, n), attrs |-> at, size |-> 0, class |-> ""] :
        w \in {"sqs", "sns"}, a \in BOOLEAN, n \in BodyLengths,
        at \in {NoAttributes, OneAttribute}}

InitThreshold ==
    /\ alwaysSendToS3 = FALSE
    /\ handleStyle = "base64"
    /\ queue = <<>>
    /\ topic = <<>>
    /\ store = <<>>
    /\ ops = <<>>
    /\ uuids = 0
    /\ probe \in {p \in ThresholdInputs : p.wrapper = "sns" \/ ~p.always}

\* SendHeftyMessage: msgSize, then the size validation
ClassifySqs ==
    /\ probe.fn = "classify" /\ probe.step = "in" /\ probe.wrapper = "sqs"
    /\ LET sz == msgSize(probe.body, probe.attrs)
       IN  probe' = [probe EXCEPT !.step = "out", !.size = sz.size,
                                  !.class = SqsClassify(sz.size)]
    /\ UNCHANGED <<alwaysSendToS3, handleStyle, queue, topic, store, ops, uuids>>

\* PublishHeftyMessage: messages.MessageSize, then the size validation
ClassifySns ==
    /\ probe.fn = "classify" /\ probe.step = "in" /\ probe.wrapper = "sns"
    /\ LET sz == MessageSize(probe.body, probe.attrs)
       IN  probe' = [probe EXCEPT !.step = "out", !.size = sz.size,
                                  !.class = SnsClassify(probe.always, sz.size)]
    /\ UNCHANGED <<alwaysSendToS3, handleStyle, queue, topic, store, ops, uuids>>

NextThreshold == ClassifySqs \/ ClassifySns

SpecThreshold == InitThreshold /\ [][NextThreshold]_vars

----------------------------------------------------------------------------
(* The receipt handle codec alone: a handle is wrapped as ReceiveHeftyMessage*)
(* wraps it and unwrapped as DeleteHeftyMessage unwraps it                  *)

NoUnwrapped == [kind |-> "", handle |-> <<>>, bucket |-> <<>>, key |-> <<>>]

InitHandle ==
    /\ alwaysSendToS3 = FALSE
    /\ handleStyle = "base64"
    /\ queue = <<>>
    /\ topic = <<>>
    /\ store = <<>>
    /\ ops = <<>>
    /\ uuids = 0
    /\ probe \in {[fn |-> "handle", step |-> "in", h |-> h, c |-> c, k |-> k,
                   given |-> <<>>, un |-> NoUnwrapped] :
                     h \in {B("rh1A"), B("rh-1"), B("rh1"), B("a|b"), B("|"), <<>>},
                     c \in {B("bkt"), B("bucketX"), B("b|t"), <<>>},
                     k \in {B("Q/u1"), B("key/123"), B("Q|/u1"), <<>>}}

\* the handle is wrapped, and the wrapped handle is unwrapped
WrapThenUnwrap ==
    /\ probe.fn = "handle" /\ probe.step = "in"
    /\ LET wrapped == WrapReceiptHandle(probe.h, probe.c, probe.k)
       IN  probe' = [probe EXCEPT !.step = "wrapped", !.given = wrapped,
                                  !.un = UnwrapReceiptHandle(wrapped)]
    /\ UNCHANGED <<alwaysSendToS3, handleStyle, queue, topic, store, ops, uuids>>

\* the native handle is unwrapped as it is
UnwrapNative ==
    /\ probe.fn = "handle" /\ probe.step = "in"
    /\ probe' = [probe EXCEPT !.step = "native", !.given = probe.h,
                              !.un = UnwrapReceiptHandle(probe.h)]
    /\ UNCHANGED <<alwaysSendToS3, handleStyle, queue, topic, store, ops, uuids>>

NextHandle == WrapThenUnwrap \/ UnwrapNative

SpecHandle == InitHandle /\ [][NextHandle]_vars

----------------------------------------------------------------------------
(* Properties *)

Senders == {i \in 1..Len(ops) : ops[i].kind = "send"}

Publishers == {i \in 1..Len(ops) : ops[i].kind = "publish"}

Receivers == {i \in 1..Len(ops) : ops[i].kind = "receive"}

Deleters == {i \in 1..Len(ops) : ops[i].kind = "delete"}

\* a receive that has returned its messages to the caller
Returned(i) == ops[i].kind = "receive" /\ ops[i].pc = "done" /\ ~ops[i].outNil

\* message id was sent by a SendHeftyMessage
SentBySend(id) == ops[SenderOf(id)].kind = "send"

\* the sender passed the marker attribute itself
SentWithMarker(i) == HasMarker(ops[i].in)

\* message m is returned with the body, and if offloaded the attributes,
\* that its sender passed
Transparent(m) ==
    LET sender == ops[SenderOf(m.MessageId)]
    IN  /\ m.Body = sender.in.MessageBody
        /\ sender.class = "SendOffloaded"
             => m.MessageAttributes = sender.in.MessageAttributes

\* C1 as stated: every message that a successful ReceiveHeftyMessage returns
\* has the body its sender passed to SendHeftyMessage and, when it was
\* offloaded, exactly the sender's attributes, whatever names were requested.
NotC1_TransparentForEveryMessage ==
    \A r \in Receivers : Returned(r) =>
        \A n \in 1..Len(ops[r].msgs) :
            SentBySend(ops[r].msgs[n].MessageId) => Transparent(ops[r].msgs[n])

\* C1 as amended: every message that a successful ReceiveHeftyMessage returns
\* and whose sender did not pass the hefty-client-version attribute has the
\* body its sender passed and, when it was offloaded, exactly the sender's
\* attributes, whatever names were requested.
C1_Transparent ==
    \A r \in Receivers : Returned(r) =>
        \A n \in 1..Len(ops[r].msgs) :
            (/\ SentBySend(ops[r].msgs[n].MessageId)
             /\ ~SentWithMarker(ops[r].msgs[n].MessageId))
                => Transparent(ops[r].msgs[n])

\* an offloaded message with an attribute is returned, body and attribute,
\* to a receiver that requested no attribute names
C1_Witness ==
    \E r \in Receivers :
        /\ Returned(r)
        /\ ops[r].in.isNil
        /\ \E n \in 1..Len(ops[r].msgs) :
             /\ SentBySend(ops[r].msgs[n].MessageId)
             /\ ops[SenderOf(ops[r].msgs[n].MessageId)].class = "SendOffloaded"
             /\ ops[r].msgs[n].Body = BigBody
             /\ ops[r].msgs[n].MessageAttributes = OneAttribute
             /\ ops[r].delivered[n].MessageAttributes = MarkerAttributes

----------------------------------------------------------------------------

InlineLimit(wrapper) ==
    IF wrapper = "sqs" THEN MaxSqsMessageLengthBytes ELSE MaxAwsMessageLengthBytes

\* C2: with the always-offload option not set, a computed size is classified
\* SendInline exactly when it is at most the inline limit, Reject exactly
\* when it exceeds the ceiling, and SendOffloaded exactly in between.
C2_ThresholdLaw ==
    (probe.fn = "classify" /\ probe.step = "out" /\ ~probe.always) =>
        /\ probe.class \in {"SendInline", "SendOffloaded", "Reject"}
        /\ probe.class = "SendInline" <=> probe.size <= InlineLimit(probe.wrapper)
        /\ probe.class = "Reject" <=> probe.size > MaxHeftyMessageLengthBytes
        /\ probe.class = "SendOffloaded" <=>
               (probe.size > InlineLimit(probe.wrapper)
                  /\ probe.size <= MaxHeftyMessageLengthBytes)

\* a message with an attribute whose size is exactly the ceiling is offloaded
\* by the SQS wrapper
C2_Witness ==
    /\ probe.fn = "classify" /\ probe.step = "out"
    /\ probe.wrapper = "sqs"
    /\ probe.attrs = OneAttribute
    /\ probe.size = MaxHeftyMessageLengthBytes
    /\ probe.class = "SendOffloaded"

----------------------------------------------------------------------------

IsQueueSend(call) == call.api = "SendMessage" \/ call.api = "Publish"

PutFailed(op) ==
    \E m \in 1..Len(op.calls) : op.calls[m].api = "PutObject" /\ ~op.calls[m].ok

\* C3: on the offloaded path a queue send is made only after the blob put of
\* the same send has succeeded; a failed blob put ends the send with an
\* error and without a queue send; a reference held by the queue or topic is
\* one whose blob put succeeded.
C3_PutBeforeSend ==
    \A i \in Senders \cup Publishers :
        ops[i].class = "SendOffloaded" =>
            LET c == ops[i].calls
            IN  /\ \A n \in 1..Len(c) :
                     IsQueueSend(c[n]) =>
                        \E m \in 1..(n - 1) :
                            /\ c[m].api = "PutObject"
                            /\ c[m].ok
                            /\ c[m].target = <<Bucket, ops[i].refMsg.S3Key>>
                /\ PutFailed(ops[i]) =>
                     /\ ops[i].pc = "done"
                     /\ Failed(ops[i])
                     /\ \A n \in 1..Len(c) : ~IsQueueSend(c[n])
                /\ i \in DOMAIN queue =>
                     /\ queue[i].Body.kind = "ref"
                     /\ c[1] = Call("PutObject",
                                    <<queue[i].Body.ref.S3Bucket,
                                      queue[i].Body.ref.S3Key>>, TRUE)
                /\ i \in DOMAIN topic =>
                     /\ topic[i].Message.kind = "snsmsg"
                     /\ c[1] = Call("PutObject",
                                    <<topic[i].Message.Message.ref.S3Bucket,
                                      topic[i].Message.Message.ref.S3Key>>, TRUE)

\* one send has put its blob and then sent the reference, another has ended
\* at a failed blob put
C3_Witness ==
    /\ \E i \in Senders :
         /\ Len(ops[i].calls) = 2
         /\ ops[i].calls[1].api = "PutObject" /\ ops[i].calls[1].ok
         /\ ops[i].calls[2].api = "SendMessage" /\ ops[i].calls[2].ok
         /\ i \in DOMAIN queue
    /\ \E j \in Senders :
         /\ PutFailed(ops[j])
         /\ ops[j].pc = "done"
         /\ Failed(ops[j])

----------------------------------------------------------------------------

\* delete d was given the handle that receive r returned for its n-th
\* message, an offloaded one
WrappedFor(d, r, n) ==
    /\ Returned(r)
    /\ n \in 1..Len(ops[r].msgs)
    /\ HasMarker(ops[r].delivered[n])
    /\ ops[r].msgs[n].ReceiptHandle = ops[d].in

\* C4: a delete given a wrapped receipt handle first issues a blob delete for
\* the bucket and key the handle was wrapped with, issues the queue delete
\* only after that blob delete succeeded and with the native handle; a
\* failed blob delete ends the delete with an error and no queue delete.
C4_DeleteOffloaded ==
    \A d \in Deleters : \A r \in Receivers : \A n \in 1..MaxBatch :
        WrappedFor(d, r, n) =>
            LET c == ops[d].calls
                ref == ops[r].delivered[n].Body.ref
                native == ops[r].delivered[n].ReceiptHandle
            IN  /\ \/ ops[d].pc = "DeleteObject" /\ c = <<>>
                   \/ /\ Len(c) >= 1
                      /\ c[1].api = "DeleteObject"
                      /\ c[1].target = <<ref.S3Bucket, ref.S3Key>>
                /\ Len(c) <= 2
                /\ (Len(c) >= 1 /\ c[1].ok) =>
                     \/ ops[d].pc = "DeleteMessage" /\ Len(c) = 1
                     \/ /\ Len(c) = 2
                        /\ c[2].api = "DeleteMessage"
                        /\ c[2].target = native
                /\ (Len(c) >= 1 /\ ~c[1].ok) =>
                     /\ Len(c) = 1
                     /\ ops[d].pc = "done"
                     /\ Failed(ops[d])

\* a delete has removed the blob and then the message, with a handle that
\* differs from the one it was given
C4_Witness ==
    \E d \in Deleters : \E r \in Receivers : \E n \in 1..MaxBatch :
        /\ WrappedFor(d, r, n)
        /\ Len(ops[d].calls) = 2
        /\ ops[d].calls[1].ok
        /\ ops[d].calls[2].ok
        /\ ops[d].calls[2].target # ops[d].in
        /\ ops[r].delivered[n].MessageId \notin DOMAIN queue

----------------------------------------------------------------------------

\* C5 as stated: unwrapping the handle made by wrapping any native handle h,
\* container c and key k, the '|' delimiter allowed in them, gives back
\* (true, h, c, k).
NotC5_HandleRoundTrip ==
    (probe.fn = "handle" /\ probe.step = "wrapped") =>
        probe.un = [kind |-> "hefty", handle |-> probe.h,
                    bucket |-> probe.c, key |-> probe.k]

----------------------------------------------------------------------------

\* C6 as stated: a delete given a handle as the queue issued it, whether or
\* not it decodes, reports no decode error, issues no blob delete and calls
\* the queue delete with that handle.
NotC6_NativeFallback ==
    \A d \in Deleters :
        Handled(ops[d].in) # {} =>
            LET c == ops[d].calls
            IN  /\ ops[d].err.msg # "could not decode receipt handle"
                /\ \A n \in 1..Len(c) : c[n].api # "DeleteObject"
                /\ \/ ops[d].pc = "DeleteMessage" /\ c = <<>>
                   \/ /\ Len(c) = 1
                      /\ c[1].api = "DeleteMessage"
                      /\ c[1].target = ops[d].in

----------------------------------------------------------------------------

\* the queue send of operation i failed after its blob put had succeeded
LateFailure(i) ==
    /\ ops[i].class = "SendOffloaded"
    /\ Len(ops[i].calls) >= 2
    /\ ops[i].calls[1].api = "PutObject" /\ ops[i].calls[1].ok
    /\ IsQueueSend(ops[i].calls[2]) /\ ~ops[i].calls[2].ok

\* C7: when the queue send fails after the blob put succeeded, the send has
\* ended with an error, the blob is in the store, and the send has made no
\* further call: no blob delete and no second queue send.
C7_OrphanOnLateFailure ==
    \A i \in Senders \cup Publishers :
        LateFailure(i) =>
            /\ ops[i].pc = "done"
            /\ Failed(ops[i])
            /\ i \notin DOMAIN queue
            /\ i \notin DOMAIN topic
            /\ <<Bucket, ops[i].refMsg.S3Key>> \in DOMAIN store
            /\ store[<<Bucket, ops[i].refMsg.S3Key>>] = ops[i].serialized
            /\ Len(ops[i].calls) = 2

\* a send of the SQS wrapper has failed at the queue with its blob stored
C7_Witness ==
    \E i \in Senders :
        /\ LateFailure(i)
        /\ ops[i].err = Err("", "SendMessage")
        /\ <<Bucket, ops[i].refMsg.S3Key>> \in DOMAIN store

----------------------------------------------------------------------------

\* the size of a non-empty message, computed here from its parts, exceeds
\* the ceiling
TooLarge(body, attrs) ==
    /\ BodyLen(body) >= 1
    /\ Supported(attrs)
    /\ BodyLen(body) + AttrSize(attrs, DOMAIN attrs) > MaxHeftyMessageLengthBytes

Rejected(i) ==
    /\ ops[i].pc = "done"
    /\ ops[i].err = Err("message size greater than allowed message size", "")
    /\ ops[i].calls = <<>>
    /\ ops[i].refMsg = NoRef
    /\ i \notin DOMAIN queue
    /\ i \notin DOMAIN topic

\* C8: a send or publish whose computed size exceeds the ceiling, with or
\* without the always-offload option, fails as too large and makes no
\* collaborator call: nothing is put in the store, queue or topic.
C8_RejectNoSideEffects ==
    /\ \A i \in Senders :
         TooLarge(ops[i].in.MessageBody, ops[i].in.MessageAttributes) => Rejected(i)
    /\ \A i \in Publishers :
         TooLarge(ops[i].in.Message, ops[i].in.MessageAttributes) => Rejected(i)

\* with the always-offload option set a publish has been rejected, and so
\* has a send
C8_Witness ==
    /\ alwaysSendToS3
    /\ \E i \in Publishers :
         TooLarge(ops[i].in.Message, ops[i].in.MessageAttributes) /\ Rejected(i)
    /\ \E i \in Senders :
         TooLarge(ops[i].in.MessageBody, ops[i].in.MessageAttributes) /\ Rejected(i)

----------------------------------------------------------------------------

\* C9: for a message that was sent offloaded, the digests on the returned
\* message are those of the sender's original body and attributes, those in
\* the reference message and those SendHeftyMessage returned; they are not
\* the digests of the reference message.
C9_ReceiverDigests ==
    \A r \in Receivers : Returned(r) =>
        \A n \in 1..Len(ops[r].msgs) :
            LET m == ops[r].msgs[n]
                q == ops[r].delivered[n]
                sender == ops[SenderOf(m.MessageId)]
            IN  (sender.kind = "send" /\ sender.class = "SendOffloaded") =>
                    /\ m.MD5OfBody = Md5Digest(sender.in.MessageBody)
                    /\ m.MD5OfMessageAttributes = AttributeDigest(sender.in.MessageAttributes)
                    /\ m.MD5OfBody = q.Body.ref.Md5Body
                    /\ m.MD5OfMessageAttributes = q.Body.ref.Md5Attr
                    /\ ~sender.out.isNil
                    /\ m.MD5OfBody = sender.out.MD5OfMessageBody
                    /\ m.MD5OfMessageAttributes = sender.out.MD5OfMessageAttributes
                    /\ m.MD5OfBody # Md5Digest(q.Body)
                    /\ m.MD5OfBody # q.MD5OfBody
                    /\ m.MD5OfMessageAttributes # q.MD5OfMessageAttributes

\* an offloaded message with an attribute has been returned with the digest
\* of its large body
C9_Witness ==
    \E r \in Receivers :
        /\ Returned(r)
        /\ \E n \in 1..Len(ops[r].msgs) :
             /\ SentBySend(ops[r].msgs[n].MessageId)
             /\ ops[SenderOf(ops[r].msgs[n].MessageId)].class = "SendOffloaded"
             /\ ops[r].msgs[n].MD5OfBody = Md5Digest(BigBody)
             /\ ops[r].msgs[n].MD5OfMessageAttributes = AttributeDigest(OneAttribute)
             /\ ops[r].delivered[n].MD5OfBody = Md5Digest(ops[r].delivered[n].Body)

----------------------------------------------------------------------------

\* C10 as stated: the digests recorded for a message forced through the
\* offload path are the digests of the caller's original body and attributes.
NotC10_DigestStability ==
    \A i \in Publishers :
        (alwaysSendToS3 /\ ops[i].class = "SendOffloaded") =>
            /\ ops[i].bodyHash = Md5Digest(ops[i].in.Message)
            /\ ops[i].attributesHash = AttributeDigest(ops[i].in.MessageAttributes)

----------------------------------------------------------------------------

\* the message that operation i handed to the queue or the topic and that
\* was accepted
Handed(i) == IF i \in DOMAIN queue THEN queue[i] ELSE topic[i]

\* C11 as stated: the message of every offloaded send or publish that the
\* queue or topic accepted carries the hefty-client-version attribute, and
\* the message of an inline send carries the attributes the caller passed.
NotC11_MarkerAttribute ==
    \A i \in Senders \cup Publishers :
        (i \in DOMAIN queue \/ i \in DOMAIN topic) =>
            /\ ops[i].class = "SendOffloaded" => HasMarker(Handed(i))
            /\ ops[i].class = "SendInline" =>
                 Handed(i).MessageAttributes = ops[i].in.MessageAttributes

----------------------------------------------------------------------------

\* the size of a message, from its parts
SizeOf(body, attrs) == BodyLen(body) + AttrSize(attrs, DOMAIN attrs)

\* C12: with the always-offload option set, every publish of a non-empty
\* message whose size is at most the ceiling is classified SendOffloaded,
\* small messages included: its first call is the blob put and what the
\* topic accepts from it is the reference message, never the message
\* itself.  Without the option the classification is the threshold law.
C12_AlwaysOffload ==
    \A i \in Publishers :
        LET p == ops[i].in
            size == SizeOf(p.Message, p.MessageAttributes)
        IN  (BodyLen(p.Message) >= 1 /\ Supported(p.MessageAttributes)) =>
              /\ (alwaysSendToS3 /\ size <= MaxHeftyMessageLengthBytes) =>
                   /\ ops[i].class = "SendOffloaded"
                   /\ ops[i].calls # <<>> => ops[i].calls[1].api = "PutObject"
                   /\ \A n \in 1..Len(ops[i].calls) :
                        ops[i].calls[n].api = "Publish" => n = 2 /\ ops[i].calls[1].ok
                   /\ i \in DOMAIN topic => topic[i].Message.kind = "snsmsg"
              /\ ~alwaysSendToS3 =>
                   ops[i].class =
                       IF size <= MaxAwsMessageLengthBytes THEN "SendInline"
                       ELSE IF size > MaxHeftyMessageLengthBytes THEN "Reject"
                       ELSE "SendOffloaded"

\* with the option set, a two-byte message has been put in the store and its
\* reference published
C12_Witness ==
    /\ alwaysSendToS3
    /\ \E i \in Publishers :
         /\ ops[i].in.Message = SmallBody
         /\ ops[i].class = "SendOffloaded"
         /\ Len(ops[i].calls) = 2
         /\ ops[i].calls[1] = Call("PutObject", <<Bucket, ops[i].refMsg.S3Key>>, TRUE)
         /\ ops[i].calls[2].api = "Publish" /\ ops[i].calls[2].ok
         /\ i \in DOMAIN topic

----------------------------------------------------------------------------
(* The size calculation alone: msgSize ranges over the attribute map in an   *)
(* order the Go runtime chooses                                              *)

\* the loop of msgSize over the attributes in the order visited: the first
\* attribute of an unexpected data type ends it with -1 and an error
RECURSIVE msgSizeRange(_, _, _)
msgSizeRange(size, attrs, order) ==
    IF order = <<>> THEN [err |-> FALSE, size |-> size]
    ELSE LET k == Head(order)
             v == attrs[k]
             counted == size + Len(k) + Len(v.DataType)
         IN  IF IsStringLike(v.DataType)
             THEN msgSizeRange(counted + Len(v.StringValue), attrs, Tail(order))
             ELSE IF IsBinary(v.DataType)
             THEN msgSizeRange(counted + Len(v.BinaryValue), attrs, Tail(order))
             ELSE [err |-> TRUE, size |-> -1]

\* the orders in which a range over the attribute map can visit it
Orders(attrs) ==
    {q \in [1..Cardinality(DOMAIN attrs) -> DOMAIN attrs] :
        \A a, b \in DOMAIN q : a # b => q[a] # q[b]}

\* how many attributes the messages under test carry at most
MaxAttrs == 2

AttrValues ==
    {StringAttr(B("v")),
     [DataType |-> TypeNumber, StringValue |-> B("12"), BinaryValue |-> <<>>],
     [DataType |-> B("String.custom"), StringValue |-> B("abc"), BinaryValue |-> <<1>>],
     BinaryAttr(<<1, 2, 3>>),
     [DataType |-> B("Binary.png"), StringValue |-> B("ignored"), BinaryValue |-> <<7>>],
     [DataType |-> B("Foo"), StringValue |-> B("v"), BinaryValue |-> <<>>],
     [DataType |-> <<>>, StringValue |-> B("v"), BinaryValue |-> <<>>]}

AttrMaps ==
    UNION {[names -> AttrValues] :
              names \in {s \in SUBSET {B("k"), B("k2"), B("bin")} :
                           Cardinality(s) <= MaxAttrs}}

SizeBodies == {Rep(104, 2), Rep(97, MaxSqsMessageLengthBytes)}

InitSize ==
    /\ alwaysSendToS3 = FALSE
    /\ handleStyle = "base64"
    /\ queue = <<>>
    /\ topic = <<>>
    /\ store = <<>>
    /\ ops = <<>>
    /\ uuids = 0
    /\ probe \in {[fn |-> "size", step |-> "in", body |-> b, attrs |-> a,
                   order |-> <<>>, err |-> FALSE, size |-> 0] :
                     b \in SizeBodies, a \in AttrMaps}

\* msgSize(params) with the attributes visited in one of the possible orders
ComputeSize ==
    /\ probe.fn = "size" /\ probe.step = "in"
    /\ \E order \in Orders(probe.attrs) :
         LET sz == msgSizeRange(BodyLen(probe.body), probe.attrs, order)
         IN  probe' = [probe EXCEPT !.step = "out", !.order = order,
                                    !.err = sz.err, !.size = sz.size]
    /\ UNCHANGED <<alwaysSendToS3, handleStyle, queue, topic, store, ops, uuids>>

NextSize == ComputeSize

SpecSize == InitSize /\ [][NextSize]_vars

\* the data type begins with String, Number or Binary
Recognised(dataType) ==
    \/ HasPrefix(dataType, B("String"))
    \/ HasPrefix(dataType, B("Number"))
    \/ HasPrefix(dataType, B("Binary"))

\* name, data type and value lengths of one attribute
AttributeBytes(k, v) ==
    Len(k) + Len(v.DataType)
      + (IF HasPrefix(v.DataType, B("Binary"))
         THEN Len(v.BinaryValue) ELSE Len(v.StringValue))

RECURSIVE SumOver(_, _)
SumOver(attrs, names) ==
    IF names = {} THEN 0
    ELSE LET k == CHOOSE x \in names : TRUE
         IN  AttributeBytes(k, attrs[k]) + SumOver(attrs, names \ {k})

\* C13: when every data type begins with String, Number or Binary, msgSize
\* returns no error and the body length plus, for every attribute, the
\* lengths of its name, its data type and its value (the string value for
\* String and Number, the binary value for Binary), in whatever order the
\* attributes were visited; a two-byte body with attribute k/String/v gives
\* 10.
C13_SizeAccounting ==
    (probe.fn = "size" /\ probe.step = "out"
       /\ \A k \in DOMAIN probe.attrs : Recognised(probe.attrs[k].DataType)) =>
        /\ ~probe.err
        /\ probe.size = BodyLen(probe.body) + SumOver(probe.attrs, DOMAIN probe.attrs)
        /\ probe.size = msgSize(probe.body, probe.attrs).size
        /\ (probe.body = Rep(104, 2) /\ probe.attrs = OneAttribute) => probe.size = 10

\* two attributes, a Number and a Binary one, have been counted with the
\* Binary one visited first
C13_Witness ==
    /\ probe.fn = "size" /\ probe.step = "out"
    /\ probe.body = Rep(104, 2)
    /\ DOMAIN probe.attrs = {B("k"), B("bin")}
    /\ probe.attrs[B("k")].DataType = TypeNumber
    /\ probe.attrs[B("bin")] = BinaryAttr(<<1, 2, 3>>)
    /\ probe.order = <<B("bin"), B("k")>>
    /\ probe.size = 2 + (1 + 6 + 2) + (3 + 6 + 3)

----------------------------------------------------------------------------

\* the identifier is absent or does not split into `count` tokens
BadIdentifier(id, sep, count) == id.isNil \/ Len(Split(id.v, sep)) # count

UnsupportedAttributeType(i) ==
    /\ ops[i].pc = "done"
    /\ ops[i].err.msg \in {"unable to check message size",
                           "unable to get size of message"}

InvalidDestinationIdentifier(i) ==
    /\ ops[i].pc = "done"
    /\ ops[i].err.msg \in {"unable to create reference message from queueUrl",
                           "unable to create reference message from topicArn"}

\* operation i has made no collaborator call and left nothing behind
NoIO(i) ==
    /\ ops[i].calls = <<>>
    /\ i \notin DOMAIN queue
    /\ i \notin DOMAIN topic
    /\ \A at \in DOMAIN store : at[2] # ops[i].refMsg.S3Key

\* C14: a send or publish of a non-empty message with an attribute whose
\* data type begins with none of String, Number, Binary fails with
\* UnsupportedAttributeType, and one that is to be offloaded to a queue URL
\* that is absent or has not 5 '/'-separated tokens (a topic ARN that is
\* absent or has not 6 ':'-separated tokens) fails with
\* InvalidDestinationIdentifier; a send that has failed with either error
\* has issued no blob put and no queue send.
C14_ValidationPrecedesIO ==
    /\ \A i \in Senders :
         LET p == ops[i].in
         IN  BodyLen(p.MessageBody) >= 1 =>
               /\ ~Supported(p.MessageAttributes) => UnsupportedAttributeType(i)
               /\ (Supported(p.MessageAttributes)
                     /\ ops[i].class = "SendOffloaded"
                     /\ BadIdentifier(p.QueueUrl, Slash[1], 5)) =>
                    InvalidDestinationIdentifier(i)
    /\ \A i \in Publishers :
         LET p == ops[i].in
         IN  BodyLen(p.Message) >= 1 =>
               /\ ~Supported(p.MessageAttributes) => UnsupportedAttributeType(i)
               /\ (Supported(p.MessageAttributes)
                     /\ ops[i].class = "SendOffloaded"
                     /\ BadIdentifier(p.TopicArn, Colon[1], 6)) =>
                    InvalidDestinationIdentifier(i)
    /\ \A i \in Senders \cup Publishers :
         (UnsupportedAttributeType(i) \/ InvalidDestinationIdentifier(i)) => NoIO(i)

\* one send has failed on its attribute, another on its queue URL, and a
\* third has put a blob in the meantime
C14_Witness ==
    /\ \E i \in Senders :
         /\ ops[i].in.MessageAttributes = UnsupportedAttribute
         /\ UnsupportedAttributeType(i) /\ NoIO(i)
    /\ \E i \in Senders :
         /\ ops[i].in.QueueUrl = Some(B("Q"))
         /\ InvalidDestinationIdentifier(i) /\ NoIO(i)
    /\ store # <<>>

----------------------------------------------------------------------------
(* DeleteHeftyMessage alone, with receipt handles of the caller's making    *)

\* receipt handles a caller can pass: texts with the prefix and 1, 2 and 5
\* tokens, a handle wrapped from a native handle that holds a '|', a
\* well-formed wrapped handle and a native one
DeleteInputs ==
    {EncodeToString(receiptHandlePrefix),
     EncodeToString(receiptHandlePrefix \o Pipe \o B("rh1A")),
     EncodeToString(receiptHandlePrefix \o B("|rh1A|bkt|Q/u1|x")),
     WrapReceiptHandle(B("a|b"), Bucket, B("Q/u1")),
     WrapReceiptHandle(B("rh1A"), Bucket, B("Q/u1")),
     B("rh1A")}

InitDelete ==
    /\ alwaysSendToS3 = FALSE
    /\ handleStyle = "base64"
    /\ queue = <<>>
    /\ topic = <<>>
    /\ store = <<>>
    /\ ops = <<>>
    /\ uuids = 0
    /\ probe = NoProbe

\* a caller deletes with a receipt handle of its own
DeleteGivenHandle ==
    /\ CanStart
    /\ \E handle \in DeleteInputs : ops' = Append(ops, DeleteBegin(handle))
    /\ UNCHANGED <<alwaysSendToS3, handleStyle, queue, topic, store, uuids, probe>>

NextDelete ==
    \/ DeleteGivenHandle
    \/ \E i \in 1..Len(ops) : DeleteObject(i)
    \/ \E i \in 1..Len(ops) : DeleteMessage(i)

SpecDelete == InitDelete /\ [][NextDelete]_vars

----------------------------------------------------------------------------
(* The SQS wrapper beside the SNS wrapper, which puts its blobs in the same *)
(* bucket, and with callers that pass the marker attribute themselves: the  *)
(* queue then holds marked messages whose body is no reference message, and *)
(* marked reference messages whose blob largeSqsMsg.Deserialize rejects.    *)
(* The publishes are those of a message that PublishHeftyMessage offloads;  *)
(* the deletes take a receipt handle that a receive returned or one of the  *)
(* caller's making                                                          *)

\* a small message whose only attribute is the marker attribute
MarkedSendInput == SendParams(Some(TheQueueUrl), SmallBody, MarkerAttributes)

\* a caller sends a small message with the marker attribute as its only
\* attribute: a body of its own, or the reference message (the JSON of
\* json.Marshal) that a publish which has returned wrote for its blob
SendMarkedHeftyMessage ==
    \/ StartSend(MarkedSendInput)
    \/ \E p \in 1..Len(ops) :
         /\ ops[p].kind = "publish"
         /\ ops[p].pc = "done"
         /\ ops[p].refMsg # NoRef
         /\ StartSend(SendParams(Some(TheQueueUrl),
                                 [kind |-> "ref", indent |-> FALSE,
                                  ref |-> ops[p].refMsg],
                                 MarkerAttributes))

NextFailure ==
    \/ SendHeftyMessage
    \/ SendMarkedHeftyMessage
    \/ \E i \in 1..Len(ops) : SendDirect(i)
    \/ \E i \in 1..Len(ops) : Upload(i)
    \/ \E i \in 1..Len(ops) : SendReference(i)
    \/ StartPublish(OffloadedPublishInput)
    \/ \E i \in 1..Len(ops) : PublishUpload(i)
    \/ \E i \in 1..Len(ops) : PublishReference(i)
    \/ ReceiveHeftyMessage
    \/ \E i \in 1..Len(ops) : ReceiveMessage(i)
    \/ \E i \in 1..Len(ops) : Download(i)
    \/ DeleteHeftyMessage
    \/ DeleteGivenHandle
    \/ \E i \in 1..Len(ops) : DeleteObject(i)
    \/ \E i \in 1..Len(ops) : DeleteMessage(i)

SpecFailure == Init /\ [][NextFailure]_vars

----------------------------------------------------------------------------
\* the handle decodes to a text with the prefix that does not split into
\* exactly 4 tokens
Malformed(handle) ==
    LET d == DecodeString(handle)
    IN  /\ ~d.err
        /\ HasPrefix(d.bytes, B("hefty-message"))
        /\ Len(Split(d.bytes, 124)) # 4

\* C15: a delete whose receipt handle decodes to a text that has the prefix
\* but not exactly 4 '|'-delimited tokens has failed with
\* MalformedReceiptHandle and has issued neither a blob delete nor a queue
\* delete.
C15_MalformedHandle ==
    \A d \in Deleters :
        Malformed(ops[d].in) =>
            /\ ops[d].pc = "done"
            /\ ops[d].err = Err("expected number of tokens not available in receipt handle", "")
            /\ ops[d].calls = <<>>

\* deletes with a 5-token and with a 2-token handle have failed, and a delete
\* with a well-formed handle has made its two calls
C15_Witness ==
    /\ \E d \in Deleters :
         /\ Len(Split(DecodeString(ops[d].in).bytes, 124)) = 5
         /\ Malformed(ops[d].in) /\ Failed(ops[d]) /\ ops[d].calls = <<>>
    /\ \E d \in Deleters :
         /\ Len(Split(DecodeString(ops[d].in).bytes, 124)) = 2
         /\ Malformed(ops[d].in) /\ Failed(ops[d]) /\ ops[d].calls = <<>>
    /\ \E d \in Deleters : Len(ops[d].calls) = 2

----------------------------------------------------------------------------

\* the queue delivered message m with the hefty-client-version attribute
Marked(m) == B("hefty-client-version") \in DOMAIN m.MessageAttributes

GetObjectCalls(op) ==
    {n \in 1..Len(op.calls) : op.calls[n].api = "GetObject"}

\* C16: in every receive, a message the queue delivered without the marker
\* attribute stays exactly as delivered (body, attributes, digests, receipt
\* handle), also when other messages of the batch are replaced; the message
\* being fetched or parsed is always a marked one, and every blob get is for
\* the reference of a marked message of the batch, at most one per marked
\* message.
C16_ReceivePassThrough ==
    \A r \in Receivers :
        LET op == ops[r]
            marked == {n \in 1..Len(op.delivered) : Marked(op.delivered[n])}
        IN  /\ \A n \in 1..Len(op.delivered) :
                 n \notin marked => op.msgs[n] = op.delivered[n]
            /\ op.pc = "Download" => op.i \in marked
            /\ op.err.msg \in {"unable to unmarshal reference message",
                               "unable to get message from s3",
                               "unable to decode bytes into large message type"}
                 => op.i \in marked
            /\ Cardinality(GetObjectCalls(op)) <= Cardinality(marked)
            /\ \A c \in GetObjectCalls(op) :
                 \E n \in marked :
                    /\ op.delivered[n].Body.kind = "ref"
                    /\ op.calls[c].target = <<op.delivered[n].Body.ref.S3Bucket,
                                              op.delivered[n].Body.ref.S3Key>>

\* a receive has returned a batch of an offloaded message, replaced, and an
\* inline one, as delivered, after one blob get
C16_Witness ==
    \E r \in Receivers :
        /\ Returned(r)
        /\ Len(ops[r].msgs) = 2
        /\ \E n, m \in 1..2 :
             /\ Marked(ops[r].delivered[n])
             /\ ops[r].msgs[n].Body = BigBody
             /\ ~Marked(ops[r].delivered[m])
             /\ ops[r].msgs[m] = ops[r].delivered[m]
             /\ ops[r].msgs[m].Body = SmallBody
        /\ Cardinality(GetObjectCalls(ops[r])) = 1

----------------------------------------------------------------------------

\* operation i has returned an error to its caller
ReturnedError(op) == op.pc = "done" /\ Failed(op)

\* C17: a step in which a receive takes part, or in which a delete takes
\* part that has not returned successfully, leaves the messages held by the
\* queue as they were; a delete that returned an error has made no
\* successful queue delete, and a receive that returned an error has
\* returned no message list.
C17_FailedLeaveQueue ==
    [][\A i \in 1..Len(ops') :
          /\ ((i > Len(ops) \/ ops'[i] # ops[i])
                /\ \/ ops'[i].kind = "receive"
                   \/ ops'[i].kind = "delete"
                        /\ (ops'[i].pc # "done" \/ Failed(ops'[i])))
               => queue' = queue
          /\ (ops'[i].kind = "delete" /\ ReturnedError(ops'[i])) =>
               \A n \in 1..Len(ops'[i].calls) :
                  ~(ops'[i].calls[n].api = "DeleteMessage" /\ ops'[i].calls[n].ok)
          /\ (ops'[i].kind = "receive" /\ ReturnedError(ops'[i])) =>
               ops'[i].outNil
      ]_vars

\* a publish has put its blob in the bucket, a caller has sent the reference
\* message of that blob to the queue with the marker attribute, and a
\* receive of that message has got the blob, failed to decode it and
\* returned no list; the message is still in the queue
C17_Witness ==
    \E r \in Receivers :
        /\ ReturnedError(ops[r])
        /\ ops[r].err = Err("unable to decode bytes into large message type", "")
        /\ ops[r].outNil
        /\ Len(ops[r].delivered) = 1
        /\ HasMarker(ops[r].delivered[1])
        /\ ops[r].delivered[1].MessageId \in DOMAIN queue
        /\ \E n \in 1..Len(ops[r].calls) :
              /\ ops[r].calls[n].api = "GetObject"
              /\ ops[r].calls[n].ok
              /\ store[ops[r].calls[n].target].codec = "heftyMsg"

----------------------------------------------------------------------------

\* C18 as stated: when the last collaborator call of an operation failed, the
\* operation has returned that call's error itself, with no message of the
\* wrapper's own around it, and no earlier call of the operation had failed.
NotC18_ErrorsUnchanged ==
    \A i \in 1..Len(ops) :
        LET c == ops[i].calls
        IN  (c # <<>> /\ ~c[Len(c)].ok) =>
              /\ ops[i].pc = "done"
              /\ ops[i].err = Err("", c[Len(c)].api)
              /\ \A n \in 1..(Len(c) - 1) : c[n].ok

----------------------------------------------------------------------------

\* operation i has built a reference message, and with it a store key
HasKey(i) == ops[i].refMsg # NoRef

PutSucceeded(op) ==
    \E n \in 1..Len(op.calls) : op.calls[n].api = "PutObject" /\ op.calls[n].ok

\* C19: no two sends or publishes, in any interleaving and also for identical
\* messages to the same destination, have the same store key, and the blob
\* that one of them has put is still the blob it serialized.
C19_KeyUniqueness ==
    /\ \A i, j \in Senders \cup Publishers :
         (i # j /\ HasKey(i) /\ HasKey(j)) =>
             ops[i].refMsg.S3Key # ops[j].refMsg.S3Key
    /\ \A i \in Senders \cup Publishers :
         PutSucceeded(ops[i]) =>
             /\ <<Bucket, ops[i].refMsg.S3Key>> \in DOMAIN store
             /\ store[<<Bucket, ops[i].refMsg.S3Key>>] = ops[i].serialized

\* two sends of the same message to the same queue, in progress at the same
\* time, have both put their blob
C19_Witness ==
    \E i, j \in Senders :
        /\ i # j
        /\ ops[i].in = ops[j].in
        /\ ops[i].pc = "SendReference" /\ ops[j].pc = "SendReference"
        /\ PutSucceeded(ops[i]) /\ PutSucceeded(ops[j])
        /\ Cardinality(DOMAIN store) = 2

----------------------------------------------------------------------------

\* how many calls of the collaborator operation api the operation has made
CallCount(op, api) ==
    Cardinality({n \in 1..Len(op.calls) : op.calls[n].api = api})

\* C20: a send has made at most one blob put and one queue send, a delete at
\* most one blob delete and one queue delete, and a receive one queue
\* receive and at most one blob get for each marked message it has come to,
\* whatever the outcome of each call.
C20_NoRetry ==
    /\ \A i \in Senders :
         /\ CallCount(ops[i], "PutObject") <= 1
         /\ CallCount(ops[i], "SendMessage") <= 1
         /\ Len(ops[i].calls) <= 2
    /\ \A d \in Deleters :
         /\ CallCount(ops[d], "DeleteObject") <= 1
         /\ CallCount(ops[d], "DeleteMessage") <= 1
         /\ Len(ops[d].calls) <= 2
    /\ \A r \in Receivers :
         LET come == {n \in 1..Len(ops[r].delivered) :
                         n <= ops[r].i /\ Marked(ops[r].delivered[n])}
         IN  /\ CallCount(ops[r], "ReceiveMessage") <= 1
             /\ CallCount(ops[r], "GetObject") <= Cardinality(come)
             /\ Len(ops[r].calls) <= 1 + Cardinality(come)

\* a send has failed at its blob put, a receive at its blob get, each after
\* one call of the failing operation
C20_Witness ==
    /\ \E i \in Senders :
         /\ ops[i].pc = "done"
         /\ ops[i].calls = <<Call("PutObject", <<Bucket, ops[i].refMsg.S3Key>>, FALSE)>>
    /\ \E r \in Receivers :
         /\ ops[r].pc = "done"
         /\ CallCount(ops[r], "GetObject") = 1
         /\ ~ops[r].calls[Len(ops[r].calls)].ok

----------------------------------------------------------------------------
(* The SQS wrapper under the assumption that every collaborator call       *)
(* returns: an operation that waits for a call is eventually given its     *)
(* outcome, success or failure                                             *)

\* the collaborator call that operation i waits for returns
CallReturns(i) ==
    /\ i \in 1..Len(ops)
    /\ \/ SendDirect(i)
       \/ Upload(i)
       \/ SendReference(i)
       \/ SendMessageBatch(i)
       \/ ReceiveMessage(i)
       \/ Download(i)
       \/ DeleteObject(i)
       \/ DeleteMessage(i)

InitLive ==
    /\ alwaysSendToS3 = FALSE
    /\ handleStyle = "base64"
    /\ queue = <<>>
    /\ topic = <<>>
    /\ store = <<>>
    /\ ops = <<>>
    /\ uuids = 0
    /\ probe = NoProbe

SpecLive ==
    InitLive /\ [][Next]_vars /\ \A i \in 1..MaxOps : WF_vars(CallReturns(i))

\* the operation has made the successful call that completes it: the queue
\* send, the queue receive with every marked message replaced, the queue
\* delete
Succeeded(op) ==
    /\ ~Failed(op)
    /\ op.calls # <<>>
    /\ op.calls[Len(op.calls)].ok
    /\ IF op.kind = "send"
       THEN ~op.out.isNil /\ op.calls[Len(op.calls)].api = "SendMessage"
       ELSE IF op.kind = "batch"
       THEN ~op.outNil /\ op.calls[Len(op.calls)].api = "SendMessageBatch"
       ELSE IF op.kind = "receive"
       THEN ~op.outNil /\ op.i = Len(op.msgs) + 1
       ELSE op.calls[Len(op.calls)].api = "DeleteMessage"

\* operation i has ended in success or in an error reported to its caller
Terminal(i) ==
    /\ i <= Len(ops)
    /\ ops[i].pc = "done"
    /\ Succeeded(ops[i]) \/ ReturnedError(ops[i])

\* C21: when every collaborator call returns, every send, receive and delete
\* that has been started eventually ends, either in success or in an error
\* reported to its caller.
C21_Terminates ==
    \A i \in 1..MaxOps : (i <= Len(ops)) ~> Terminal(i)

\* an offloaded send, a receive that replaced its message and the delete of
\* that message have all gone through their intermediate states and ended
C21_Witness ==
    /\ \E s \in Senders : Terminal(s) /\ Len(ops[s].calls) = 2
    /\ \E r \in Receivers : Terminal(r) /\ Cardinality(GetObjectCalls(ops[r])) = 1
    /\ \E d \in Deleters : Terminal(d) /\ Len(ops[d].calls) = 2

----------------------------------------------------------------------------
(* Concurrent callers of one SqsClientWrapper: one operation more than in  *)
(* Spec, so that a delete of one message runs while another message is     *)
(* sent or received                                                        *)

ConcurrentSendInputs ==
    {SendParams(Some(TheQueueUrl), BigBody, OneAttribute),
     SendParams(Some(TheQueueUrl), SmallBody, OneAttribute)}

CanStartConcurrently ==
    Len(ops) < MaxOps + 1 /\ Cardinality(InFlight) < MaxInFlight

\* a caller sends while other operations are in progress
SendConcurrently ==
    /\ CanStartConcurrently
    /\ \E params \in ConcurrentSendInputs :
        LET op == SendBegin(params)
        IN  /\ ops' = Append(ops, op)
            /\ uuids' = IF op.pc = "Upload" THEN uuids + 1 ELSE uuids
    /\ UNCHANGED <<alwaysSendToS3, handleStyle, queue, topic, store, probe>>

\* a caller receives, with all attributes, while other operations are in
\* progress
ReceiveConcurrently ==
    /\ CanStartConcurrently
    /\ ops' = Append(ops, ReceiveOp(Some(<<AttributeAll>>)))
    /\ UNCHANGED <<alwaysSendToS3, handleStyle, queue, topic, store, uuids, probe>>

\* a caller deletes a message that a receive returned, while other operations
\* are in progress
DeleteConcurrently ==
    /\ CanStartConcurrently
    /\ \E j \in 1..Len(ops) :
         /\ ops[j].kind = "receive"
         /\ ops[j].pc = "done"
         /\ ~ops[j].outNil
         /\ \E n \in 1..Len(ops[j].msgs) :
              ops' = Append(ops, DeleteBegin(ops[j].msgs[n].ReceiptHandle))
    /\ UNCHANGED <<alwaysSendToS3, handleStyle, queue, topic, store, uuids, probe>>

\* a caller sends a batch of one entry while other operations are in
\* progress
SendBatchConcurrently ==
    /\ CanStartConcurrently
    /\ \E params \in {p \in BatchInputs : Len(p.Entries) = 1} :
         ops' = Append(ops, BatchOp(params))
    /\ UNCHANGED <<alwaysSendToS3, handleStyle, queue, topic, store, uuids, probe>>

NextConcurrent ==
    \/ SendConcurrently
    \/ \E i \in 1..Len(ops) : SendDirect(i)
    \/ \E i \in 1..Len(ops) : Upload(i)
    \/ \E i \in 1..Len(ops) : SendReference(i)
    \/ SendBatchConcurrently
    \/ \E i \in 1..Len(ops) : SendMessageBatch(i)
    \/ ReceiveConcurrently
    \/ \E i \in 1..Len(ops) : ReceiveMessage(i)
    \/ \E i \in 1..Len(ops) : Download(i)
    \/ DeleteConcurrently
    \/ \E i \in 1..Len(ops) : DeleteObject(i)
    \/ \E i \in 1..Len(ops) : DeleteMessage(i)

SpecConcurrent == InitLive /\ [][NextConcurrent]_vars

\* the operation has made a successful call of the collaborator operation api
Made(op, api) ==
    \E n \in 1..Len(op.calls) : op.calls[n].api = api /\ op.calls[n].ok

\* the permutations of 1..n: the orders in which n operations can run one
\* after another
Orderings(n) ==
    {f \in [1..n -> 1..n] : \A a, b \in 1..n : a # b => f[a] # f[b]}

\* operation i run alone, from start to end, on queue and store e: the
\* effects of the successful calls it has made, and for a receive whether
\* the queue and the store of e deliver what it was given
RunAlone(e, i) ==
    LET op == ops[i]
    IN  IF op.kind = "send"
        THEN LET sent == IF Made(op, "PutObject")
                         THEN Referenced(op.in, op.refMsg) ELSE op.in
             IN  [queue |-> IF Made(op, "SendMessage")
                            THEN (i :> [MessageId |-> i,
                                        Body |-> sent.MessageBody,
                                        MessageAttributes |-> sent.MessageAttributes])
                                   @@ e.queue
                            ELSE e.queue,
                  store |-> IF Made(op, "PutObject")
                            THEN (<<Bucket, op.refMsg.S3Key>> :> op.serialized) @@ e.store
                            ELSE e.store,
                  same |-> e.same]
        ELSE IF op.kind = "batch"
        THEN [queue |-> BatchEnqueued(i, op.in.Entries, op.successful, e.queue),
              store |-> e.store,
              same |-> e.same]
        ELSE IF op.kind = "receive"
        THEN [queue |-> e.queue,
              store |-> e.store,
              same |->
                /\ e.same
                /\ \A n \in 1..Len(op.delivered) :
                     LET d == op.delivered[n]
                         ref == Unmarshal(d.Body).ref
                         at == <<ref.S3Bucket, ref.S3Key>>
                     IN  /\ d.MessageId \in DOMAIN e.queue
                         /\ d = Delivered(e.queue[d.MessageId], op.names)
                         /\ op.msgs[n] # d =>
                              /\ at \in DOMAIN e.store
                              /\ op.msgs[n] = Substituted(d, Deserialize(e.store[at]), ref)]
        ELSE LET native == IF op.un.kind = "hefty" THEN op.un.handle ELSE op.in
             IN  [queue |-> IF Made(op, "DeleteMessage")
                            THEN [id \in {x \in DOMAIN e.queue : NativeHandle(x) # native}
                                     |-> e.queue[id]]
                            ELSE e.queue,
                  store |-> IF Made(op, "DeleteObject")
                            THEN [at \in DOMAIN e.store \ {<<op.un.bucket, op.un.key>>}
                                     |-> e.store[at]]
                            ELSE e.store,
                  same |-> e.same]

\* the first k operations of the order run one after another from the empty
\* queue and store
RECURSIVE Sequential(_, _)
Sequential(order, k) ==
    IF k = 0 THEN [queue |-> <<>>, store |-> <<>>, same |-> TRUE]
    ELSE RunAlone(Sequential(order, k - 1), order[k])

\* C22: at every point of every interleaving, and so at its end, there is an
\* order in which the operations, run one after another with the outcomes
\* their calls had, leave the same queue and the same store and deliver to
\* every receive the messages it was given; the configuration the operations
\* share is as it was constructed, and every reference message holds the
\* constructed bucket and region.
C22_Independence ==
    /\ alwaysSendToS3 = FALSE
    /\ \A i \in Senders :
         HasKey(i) => ops[i].refMsg.S3Bucket = Bucket /\ ops[i].refMsg.S3Region = Region
    /\ \E order \in Orderings(Len(ops)) :
         LET e == Sequential(order, Len(ops))
         IN  e.same /\ e.queue = queue /\ e.store = store

\* the delete of one offloaded message is between its blob delete and its
\* queue delete while a send of another message is between its blob put and
\* its queue send
C22_Witness ==
    \E d \in Deleters : \E s \in Senders :
        /\ ops[d].pc = "DeleteMessage" /\ Made(ops[d], "DeleteObject")
        /\ ops[s].pc = "SendReference" /\ Made(ops[s], "PutObject")
        /\ ops[s].refMsg.S3Key # ops[d].un.key
        /\ Cardinality(DOMAIN queue) >= 1

----------------------------------------------------------------------------

\* the message size limit the README states, 2GB, read as 2 * 10^9 bytes
DocumentedMessageSizeLimit == 2000000000

\* C23 as stated: no send of a non-empty message whose computed size of body
\* plus attributes is at most the documented limit of 2GB has been rejected
\* as too large.
NotC23_DocumentedSizeLimit ==
    \A i \in Senders :
        (/\ BodyLen(ops[i].in.MessageBody) >= 1
         /\ Supported(ops[i].in.MessageAttributes)
         /\ SizeOf(ops[i].in.MessageBody, ops[i].in.MessageAttributes)
              <= DocumentedMessageSizeLimit)
          => ops[i].err # Err("message size greater than allowed message size", "")

----------------------------------------------------------------------------

\* the queue holds message id as a reference message: it has the marker
\* attribute and its body is the JSON of a reference
HeldReference(id) == HasMarker(queue[id]) /\ ~Unmarshal(queue[id].Body).err

\* C24 as stated, for the states in which no delete is in progress: every
\* reference message the queue holds refers to a blob that is in the store.
NotC24_NoDanglingReference ==
    (\A d \in Deleters : ops[d].pc = "done") =>
        \A id \in DOMAIN queue :
            HeldReference(id) =>
                LET ref == Unmarshal(queue[id].Body).ref
                IN  <<ref.S3Bucket, ref.S3Key>> \in DOMAIN store

----------------------------------------------------------------------------

\* publish p has returned from the offloaded path: its Publish call of the
\* reference message was made, and succeeded or failed
PublishedReference(p) ==
    /\ ops[p].pc = "done"
    /\ ops[p].class = "SendOffloaded"
    /\ \E n \in 1..Len(ops[p].calls) : ops[p].calls[n].api = "Publish"

\* C25 as stated: after a publish has returned from the offloaded path, with
\* success or with a publish error, the Message of its input structure is
\* the message the caller passed and its MessageAttributes are the caller's
\* attributes.
NotC25_PublishRestoresInput ==
    \A p \in Publishers :
        PublishedReference(p) =>
            /\ ops[p].params.Message = ops[p].in.Message
            /\ ops[p].params.MessageAttributes = ops[p].in.MessageAttributes

----------------------------------------------------------------------------

\* the name segment of a destination identifier: its last token
NameSegment(id, sep) == LET tokens == Split(id, sep) IN tokens[Len(tokens)]

\* C26 as stated: the store key of every send is the queue name, the last
\* token of its queue URL, and of every publish the topic name, the last
\* token of its topic ARN, followed by '/' and one of the tokens drawn.
NotC26_StoreKeyShape ==
    /\ \A i \in Senders :
         HasKey(i) =>
             \E n \in 1..uuids :
                 ops[i].refMsg.S3Key
                   = NameSegment(ops[i].in.QueueUrl.v, Slash[1]) \o Slash \o Uuid(n)
    /\ \A p \in Publishers :
         HasKey(p) =>
             \E n \in 1..uuids :
                 ops[p].refMsg.S3Key
                   = NameSegment(ops[p].in.TopicArn.v, Colon[1]) \o Slash \o Uuid(n)

----------------------------------------------------------------------------
(* Recognition of reference messages: types.IsReferenceMsg and              *)
(* types.ToReferenceMsg on the text of a message body                       *)

\* jsonReferenceMsgPrefix, as init() formats it
jsonReferenceMsgPrefix ==
    B("{\"identifier\":\"") \o referenceMsgIdentifierKey \o B("\",")

\* the first bytes of the text of a body that stands `depth` levels deep in
\* string values written by json.Marshal, as far as the marshalling code
\* fixes them: json.Marshal writes the identifier field first and no white
\* space, json.MarshalIndent with "\t" writes a line feed and a tab after
\* the opening brace, the envelopes write their one key first and then the
\* wrapped text, escaped as BodyLenAt counts it
RECURSIVE TextHeadAt(_, _, _)
TextHeadAt(body, depth, kept) ==
    IF body.kind = "rep"
    THEN LET unit == JsonEscapeTimes(<<body.c>>,
                         IF body.c = 34 \/ body.c = 92 THEN depth
                         ELSE depth + kept)
             count == IF body.n < Len(jsonReferenceMsgPrefix)
                      THEN body.n ELSE Len(jsonReferenceMsgPrefix)
         IN  [n \in 1..(count * Len(unit)) |-> unit[((n - 1) % Len(unit)) + 1]]
    ELSE IF body.kind = "ref"
    THEN (IF body.indent
          THEN <<123>> \o JsonEscapeTimes(<<10, 9>>, depth + kept)
                 \o JsonEscapeTimes(<<34>>, depth)
          ELSE JsonEscapeTimes(jsonReferenceMsgPrefix, depth))
    ELSE IF body.kind = "sqsmsg"
    THEN JsonEscapeTimes(SubSeq(SqsEnvelope, 1, Len(SqsEnvelope) - 2), depth)
           \o TextHeadAt(body.Message, depth + 1, 0)
    ELSE JsonEscapeTimes(SubSeq(SnsEnvelope, 1, Len(SnsEnvelope) - 2), depth)
           \o TextHeadAt(body.Message, depth, 1)

TextHead(body) == TextHeadAt(body, 0, 0)

\* types.IsReferenceMsg: strings.HasPrefix(msg, jsonReferenceMsgPrefix)
IsReferenceMsg(body) == HasPrefix(TextHead(body), jsonReferenceMsgPrefix)

\* types.ToReferenceMsg: json.Unmarshal into a ReferenceMsg
ToReferenceMsg(body) == Unmarshal(body)

\* the body is recognised as the reference message ref
Recognisable(body, ref) ==
    /\ IsReferenceMsg(body)
    /\ ToReferenceMsg(body) = [err |-> FALSE, ref |-> ref]

\* C27 as stated: the message body that an offloaded send has handed to the
\* queue, and an offloaded publish to the topic, satisfies IsReferenceMsg and
\* parses with ToReferenceMsg to the region, bucket, key and digests of the
\* blob put.
NotC27_SentReferenceRecognisable ==
    /\ \A i \in Senders :
         (ops[i].class = "SendOffloaded" /\ i \in DOMAIN queue) =>
             Recognisable(queue[i].Body, ops[i].refMsg)
    /\ \A p \in Publishers :
         (ops[p].class = "SendOffloaded" /\ p \in DOMAIN topic) =>
             Recognisable(topic[p].Message, ops[p].refMsg)

====
